---- MODULE Spec2Model ----
(***************************************************************************)
(* A model of unify-llm: the concurrent generation engine of the remote-   *)
(* API adapters (inference/api_llm/base.py, openai_api.py), the cached     *)
(* engine and its stores (inference/cached.py, cache_manager/), and the    *)
(* instance pool (inference/factory.py) with the resident-model adapters   *)
(* (inference/hf.py, inference/vllm.py).                                   *)
(***************************************************************************)
EXTENDS Integers, Sequences, FiniteSets, TLC

(* ---------------------------- bounds ---------------------------------- *)
\* longest batch handed to one generate call
MaxBatch == 2
\* resolve calls made on the pool in one behaviour
MaxResolves == 4
\* threads calling resolve at the same time
NumThreads == 2
\* cached generate calls made in one behaviour
MaxCalls == 2
\* longest batch handed to one cached generate call
MaxCacheBatch == 2
\* calls made on one store, one after the other
MaxOps == 2
\* largest repeat index a request is tagged with
MaxRepeat == 1
\* save_cache calls entered by concurrent workers of one store
MaxSaves == 3
\* workers sharing one store
NumSavers == 2
\* override scopes entered on one adapter, one after the other
MaxScopes == 2
\* adapters constructed side by side
MaxBuilt == 2

(* ----------------------- program constants ---------------------------- *)
\* api_llm/base.py:32  self.inference_cfgs.pop("max_retry", 3)
DefaultMaxRetry == 3
\* api_llm/base.py:33  self.inference_cfgs.pop("max_workers", 32)
DefaultMaxWorkers == 32
\* api_llm/base.py:34  self.inference_cfgs.pop("sleep_seconds", 30)
DefaultSleepSeconds == 30
\* cache_manager/json_file.py:15  cache_cfgs.get("flush_threshold", 10)
DefaultFlushThreshold == 10
\* RedisCacheManager.max_retries when the configuration names none
DefaultMaxRetries == 3

VARIABLES
    \* ---- generation engine of one remote-API adapter (SpecBatch) ----
    max_retry,      \* BaseApiLLMInference.max_retry
    max_workers,    \* BaseApiLLMInference.max_workers
    sleep_seconds,  \* BaseApiLLMInference.sleep_seconds
    inputs,         \* the caller's request objects (mutated by the prefill merge)
    pc,             \* position of the caller of _generate
    wstate,         \* per request: position of its unit of work
    calls,          \* per request: outcomes of the backend calls made so far
    sleeps,         \* per request: the time.sleep calls made so far, each with the
                    \* attempt it followed and its length
    future,         \* per request: what its unit of work produced
    order,          \* indices in the order their futures completed
    results,        \* the collector's dict idx -> result
    ret,            \* what _generate returned
    exc,            \* the exception _generate raised to its caller, or "none"
    given_cfgs,     \* the inference configuration the constructor was given
    \* ---- instance pool (SpecPool, SpecConc) ----
    pool,           \* InferenceFactory._inference_pool: fingerprint -> instance
    porder,         \* the pool's keys in insertion order (dict iteration order)
    inst,           \* every adapter constructed so far, by identity
    last,           \* what the last resolve call did and returned
    nresolve,       \* number of resolve calls made
    th,             \* per thread: the frame of its resolve call (SpecConc)
    \* ---- cached engine and its store (SpecCache) ----
    adapter_kind,   \* CachedInference.inference: "api", "hf" or "vllm"
    store_kind,     \* CachedInference.cache_manager: "json_file" or "redis"
    force_update,   \* BaseCacheManager.force_update
    flush_threshold,\* JSONFileCacheManager.flush_threshold
    mem,            \* JSONFileCacheManager._memory_cache
    dirty,          \* JSONFileCacheManager._dirty_keys
    disk,           \* the files of the cache directory, by file stem
    rstore,         \* the keys and values held by the redis server
    saved,          \* every value handed to save_cache so far
    prev,           \* the cached generate call before the latest one
    cur,            \* the latest cached generate call
    ncalls,         \* number of cached generate calls made
    \* ---- a cache store called directly (SpecStore, SpecStoreConc) ----
    max_retries,    \* RedisCacheManager.max_retries
    op,             \* the latest load_cache or save_cache call and how it ended
    nops,           \* number of store calls made
    write_failed,   \* a write to the cache directory has failed so far
    saving,         \* per worker: the frame of its save_cache call (SpecStoreConc)
    \* ---- one adapter's configuration and its override scope (SpecScope) ----
    inference_cfgs,          \* BaseInference.inference_cfgs
    cfgs_hash,               \* BaseInference._cfgs_hash
    original_inference_cfgs, \* BaseInference.original_inference_cfgs
    original_cfgs_hash,      \* BaseInference.original_cfgs_hash
    inference_essential_cfgs_hash, \* BaseInference._inference_essential_cfgs_hash
    scope,                   \* the _TempConfigUpdater in use and where its body is
    outer,                   \* the scope around it, or the scope that ended inside it
    nscopes,                 \* number of scopes entered
    \* ---- adapters built side by side and the fingerprints taken (SpecKeys) ----
    built,          \* the remote-API adapters constructed so far
    keyed,          \* the last request looked up and the key each adapter's engine used
    digests,        \* the dict_to_hash calls made so far: argument and digest
    \* ---- InferenceInterface.generate over a remote-API adapter (SpecFacade) ----
    facade,         \* the last generate call: its arguments, the objects it
                    \* touched and what it returned or raised
    \* ---- Shutdownable.shutdown over an ownership graph (SpecShutdown) ----
    attrs,          \* per object: the Shutdownable objects its attributes hold
    is_shutting_down, \* per object: Shutdownable._is_shutting_down
    stack,          \* the shutdown calls in progress, innermost last; each with
                    \* the attributes its loop has still to examine
    cascade         \* the shutdown calls made from outside: how many, the
                    \* object of the last one and the objects whose shutdown
                    \* body ran during it, and the same of the call before

batchVars == <<max_retry, max_workers, sleep_seconds, inputs, pc, wstate, calls, sleeps,
               future, order, results, ret, exc, given_cfgs>>

poolVars == <<pool, porder, inst, last, nresolve, th>>

cacheVars == <<adapter_kind, store_kind, force_update, flush_threshold, mem,
               dirty, disk, rstore, saved, prev, cur, ncalls>>

storeVars == <<max_retries, op, nops, write_failed, saving>>

scopeVars == <<inference_cfgs, cfgs_hash, original_inference_cfgs,
               original_cfgs_hash, inference_essential_cfgs_hash, scope, outer,
               nscopes>>

keyVars == <<built, keyed, digests>>

shutVars == <<attrs, is_shutting_down, stack, cascade>>

vars == <<batchVars, poolVars, cacheVars, storeVars, scopeVars, keyVars, facade, shutVars>>

(* ======================= requests and results ========================== *)

Turn(r, c) == [role |-> r, content |-> c]

\* InferenceInput (utils/type_utils.py): the fields the engine reads
MkInput(conv, pre, rep) ==
    [conversation |-> conv, prefilled |-> pre, system_prompt |-> "s",
     repeat_idx |-> rep]

\* a plain request, a well-formed prefilled request, a prefilled request whose
\* last turn is not an assistant turn, a prefilled request of one turn
ReqUser(rep) == MkInput(<<Turn("user", "q")>>, FALSE, rep)
ReqPrefilled == MkInput(<<Turn("user", "q"), Turn("assistant", "p")>>, TRUE, 0)
ReqBadRole   == MkInput(<<Turn("user", "q"), Turn("user", "r")>>, TRUE, 0)
ReqOneTurn   == MkInput(<<Turn("assistant", "p")>>, TRUE, 0)

Requests == {ReqUser(0), ReqUser(1), ReqPrefilled, ReqBadRole, ReqOneTurn}

RECURSIVE SeqsUpTo(_, _)
SeqsUpTo(S, n) ==
    IF n = 0 THEN {<<>>}
    ELSE LET shorter == SeqsUpTo(S, n - 1)
         IN  shorter \cup {Append(s, x) : s \in {t \in shorter : Len(t) = n - 1}, x \in S}

Batches == SeqsUpTo(Requests, MaxBatch)

\* what one backend call can do: raise, return a reply from which no result can
\* be built (no choice, or a choice whose content is None), or return a text
Replies == {"y1", "y2"}
Outcomes == {"raise", "malformed"} \cup Replies

NoResult == [none |-> TRUE]

\* openai_api.py:77-86
OkOutput(req, text) ==
    [response |-> text, input |-> req, engine |-> "api", error |-> FALSE]

\* openai_api.py:90-99
ErrorOutput(req) ==
    [response |-> "", input |-> req, engine |-> "api", error |-> TRUE]

(* ====================== BaseApiLLMInference ============================ *)

\* dict.pop(key, default) on the inference configuration
CfgPop(cfg, key, default) == IF key \in DOMAIN cfg THEN cfg[key] ELSE default

\* inference configurations the adapter is constructed with
InferenceCfgs ==
    {[temperature |-> 1]}
    \cup {[temperature |-> 1, max_retry |-> n] : n \in 0..2}
    \cup {[temperature |-> 1, max_workers |-> w] : w \in 1..2}
    \cup {[temperature |-> 1, sleep_seconds |-> 5]}

Min(a, b) == IF a < b THEN a ELSE b

\* api_llm/base.py:87-95: the prefill merge of one request; "ValueError" when
\* the popped turn is not an assistant turn, "IndexError" when no turn is left
PrefillMerge(req) ==
    IF ~req.prefilled THEN [err |-> "none", req |-> req]
    ELSE LET n    == Len(req.conversation)
             popped == req.conversation[n]
             rest == SubSeq(req.conversation, 1, n - 1)
         IN  IF popped.role # "assistant"
             THEN [err |-> "ValueError", req |-> [req EXCEPT !.conversation = rest]]
             ELSE IF n - 1 = 0
             THEN [err |-> "IndexError", req |-> [req EXCEPT !.conversation = rest]]
             ELSE [err |-> "none",
                   req |-> [req EXCEPT !.conversation =
                              [rest EXCEPT ![n - 1].content = @ \o popped.content]]]

\* the loop of api_llm/base.py:87-95 over the batch, stopping at the first raise
RECURSIVE MergeAll(_, _)
MergeAll(batch, i) ==
    IF i > Len(batch) THEN [err |-> "none", batch |-> batch]
    ELSE LET m == PrefillMerge(batch[i])
             b == [batch EXCEPT ![i] = m.req]
         IN  IF m.err # "none" THEN [err |-> m.err, batch |-> b]
             ELSE MergeAll(b, i + 1)

Idx == 1..Len(inputs)

\* a pool with one worker per request
PoolSizeOfBatch(n, mw) == n

\* api_llm/base.py:97
PoolSize(n, mw) == Min(n, mw)

Running == {i \in Idx : wstate[i] = "running"}
Queued  == {i \in Idx : wstate[i] = "queued"}

\* the retry loop running one pass too many
RetryExhaustedLate(n, limit) == n > limit

\* openai_api.py:61: the loop `for i in range(self.max_retry)` is over
RetryExhausted(n, limit) == n >= limit

\* a sleep after every failed attempt
SleepsAfterEvery(n, limit) == TRUE

\* openai_api.py:73: a sleep follows failed attempt number n only if one remains
SleepsAfter(n, limit) == n - 1 < limit - 1

\* results kept in the order the futures completed, the index ignored
CollectedByArrival(res, idx, r) == ((Cardinality(DOMAIN res) + 1) :> r) @@ res

\* api_llm/base.py:113-115: results[idx] = future.result()
Collected(res, idx, r) == (idx :> r) @@ res

\* api_llm/base.py:117: [results[i] for i in range(len(inputs))]
Assemble(res, n) == [i \in 1..n |-> res[i]]

\* every batch sent through the executor
PathAlwaysParallel(n) == "parallel"

\* api_llm/base.py:55-61: the branch _generate takes on a batch of n requests
Path(n) == IF n = 0 THEN "empty" ELSE IF n = 1 THEN "direct" ELSE "parallel"

(* ---- _generate, api_llm/base.py:51-61 ---- *)
Generate(batch) ==
    /\ pc = "idle"
    /\ IF Path(Len(batch)) = "empty"
       THEN /\ pc' = "returned"
            /\ ret' = <<>>
            /\ exc' = exc
            /\ inputs' = batch
            /\ wstate' = <<>>
       ELSE IF Path(Len(batch)) = "direct"
       THEN \* _single_generate in the caller's thread
            /\ pc' = "direct"
            /\ inputs' = batch
            /\ wstate' = <<"running">>
            /\ UNCHANGED <<ret, exc>>
       ELSE LET m == MergeAll(batch, 1)
            IN  /\ inputs' = m.batch
                /\ IF m.err # "none"
                   THEN /\ pc' = "raised"
                        /\ exc' = m.err
                        /\ ret' = ret
                        /\ wstate' = [i \in 1..Len(batch) |-> "unsubmitted"]
                   ELSE /\ pc' = "collecting"
                        /\ UNCHANGED <<ret, exc>>
                        /\ wstate' = [i \in 1..Len(batch) |-> "queued"]
    /\ calls' = [i \in 1..Len(batch) |-> <<>>]
    /\ sleeps' = [i \in 1..Len(batch) |-> <<>>]
    /\ future' = [i \in 1..Len(batch) |-> NoResult]
    /\ order' = <<>>
    /\ results' = <<>>
    /\ UNCHANGED <<max_retry, max_workers, sleep_seconds, given_cfgs, poolVars, cacheVars, storeVars, scopeVars, keyVars, facade, shutVars>>

(* ---- ThreadPoolExecutor: an idle worker takes the oldest queued task ---- *)
StartWorker(i) ==
    /\ pc \in {"collecting", "raising"}
    /\ i \in Queued
    /\ \A j \in Queued : i <= j
    /\ Cardinality(Running) < PoolSize(Len(inputs), max_workers)
    /\ wstate' = [wstate EXCEPT ![i] = "running"]
    /\ UNCHANGED <<max_retry, max_workers, sleep_seconds, inputs, pc, calls, sleeps, future,
                   order, results, ret, exc, given_cfgs, poolVars, cacheVars, storeVars, scopeVars, keyVars, facade, shutVars>>

\* a unit of work ends: its future completes (parallel path only)
Completion(i) == IF pc = "direct" THEN order ELSE Append(order, i)

(* ---- _single_generate, openai_api.py:61-86: one pass of the retry loop ---- *)
BackendCall(i, o) ==
    /\ i \in Running
    /\ ~RetryExhausted(Len(calls[i]), max_retry)
    /\ calls' = [calls EXCEPT ![i] = Append(@, o)]
    /\ IF o = "raise"
       THEN \* openai_api.py:69-75
            /\ sleeps' = [sleeps EXCEPT ![i] =
                            IF SleepsAfter(Len(calls[i]) + 1, max_retry)
                            THEN Append(@, [after |-> Len(calls[i]) + 1,
                                            secs |-> sleep_seconds])
                            ELSE @]
            /\ UNCHANGED <<wstate, future, order>>
       ELSE IF o = "malformed"
       THEN \* openai_api.py:76-77 lie outside the try: the exception escapes
            /\ wstate' = [wstate EXCEPT ![i] = "failed"]
            /\ order' = Completion(i)
            /\ UNCHANGED <<sleeps, future>>
       ELSE /\ wstate' = [wstate EXCEPT ![i] = "done"]
            /\ future' = [future EXCEPT ![i] = OkOutput(inputs[i], o)]
            /\ order' = Completion(i)
            /\ UNCHANGED sleeps
    /\ UNCHANGED <<max_retry, max_workers, sleep_seconds, inputs, pc, results, ret, exc, given_cfgs, poolVars, cacheVars, storeVars, scopeVars, keyVars, facade, shutVars>>

(* ---- _single_generate, openai_api.py:87-99: every attempt failed ---- *)
GiveUp(i) ==
    /\ i \in Running
    /\ RetryExhausted(Len(calls[i]), max_retry)
    /\ wstate' = [wstate EXCEPT ![i] = "done"]
    /\ future' = [future EXCEPT ![i] = ErrorOutput(inputs[i])]
    /\ order' = Completion(i)
    /\ UNCHANGED <<max_retry, max_workers, sleep_seconds, inputs, pc, calls, sleeps, results, ret,
                   exc, given_cfgs, poolVars, cacheVars, storeVars, scopeVars, keyVars, facade, shutVars>>

(* ---- api_llm/base.py:112-115: the collector takes the next completed future ---- *)
Collect ==
    /\ pc = "collecting"
    /\ Len(order) > Cardinality(DOMAIN results)
    /\ LET i == order[Cardinality(DOMAIN results) + 1]
       IN  IF wstate[i] = "failed"
           THEN \* future.result() re-raises in the caller
                /\ pc' = "raising"
                /\ UNCHANGED results
           ELSE /\ results' = Collected(results, i, future[i])
                /\ pc' = pc
    /\ UNCHANGED <<max_retry, max_workers, sleep_seconds, inputs, wstate, calls, sleeps, future,
                   order, ret, exc, given_cfgs, poolVars, cacheVars, storeVars, scopeVars, keyVars, facade, shutVars>>

(* ---- api_llm/base.py:99, 117: leaving the `with` block ---- *)
Finish ==
    /\ \/ /\ pc = "collecting"
          /\ Cardinality(DOMAIN results) = Len(inputs)
          /\ pc' = "returned"
          /\ ret' = Assemble(results, Len(inputs))
          /\ exc' = exc
       \/ \* executor.__exit__ waits for every unit of work, then the raise goes on
          /\ pc = "raising"
          /\ \A i \in Idx : wstate[i] \in {"done", "failed"}
          /\ pc' = "raised"
          /\ exc' = "Exception"
          /\ ret' = ret
    /\ UNCHANGED <<max_retry, max_workers, sleep_seconds, inputs, wstate, calls, sleeps, future,
                   order, results, given_cfgs, poolVars, cacheVars, storeVars, scopeVars, keyVars, facade, shutVars>>

(* ---- api_llm/base.py:59-60: the single request path returns or raises ---- *)
FinishDirect ==
    /\ pc = "direct"
    /\ wstate[1] \in {"done", "failed"}
    /\ IF wstate[1] = "failed"
       THEN pc' = "raised" /\ exc' = "Exception" /\ ret' = ret
       ELSE pc' = "returned" /\ ret' = <<future[1]>> /\ exc' = exc
    /\ UNCHANGED <<max_retry, max_workers, sleep_seconds, inputs, wstate, calls, sleeps, future,
                   order, results, given_cfgs, poolVars, cacheVars, storeVars, scopeVars, keyVars, facade, shutVars>>


(* ========================= configuration ================================ *)

\* a dict is a sequence of <<key, value>> pairs in insertion order
Keys(d) == {d[i][1] : i \in DOMAIN d}
Get(d, k) == IF k \in Keys(d) THEN d[CHOOSE i \in DOMAIN d : d[i][1] = k][2] ELSE "None"

\* dict.pop(k): the dict without key k
RECURSIVE Without(_, _)
Without(d, k) ==
    IF d = <<>> THEN <<>>
    ELSE IF Head(d)[1] = k THEN Without(Tail(d), k)
    ELSE <<Head(d)>> \o Without(Tail(d), k)

\* json.dumps(d, sort_keys=True): the serialization does not depend on the
\* insertion order, so it is determined by the set of pairs
SortedDump(d) == {d[i] : i \in DOMAIN d}

\* utils/tools.py:18-21, sha256 taken as collision free; the argument is the
\* two-level dict {"model_cfgs": m, "inference_cfgs": ic}
dict_to_hash(m, ic) == [model_cfgs |-> SortedDump(m), inference_cfgs |-> SortedDump(ic)]

HeavyCfg(b, n) == <<<<"inference_backend", b>>, <<"model_name_or_path", n>>>>
ApiCfg(n, sdk) == <<<<"inference_backend", "api">>, <<"model_name_or_path", n>>,
                    <<"model_sdk_type", sdk>>>>

ModelCfgs ==
    {HeavyCfg(b, n) : b \in {"hf", "vllm"}, n \in {"m1", "m2"}}
    \cup {<<<<"model_name_or_path", "m1">>, <<"inference_backend", "hf">>>>}
    \cup {HeavyCfg("tgi", "m1")}
    \cup {ApiCfg(n, "openai") : n \in {"m1", "m2"}}
    \cup {ApiCfg("m1", "cohere")}
    \cup {<<<<"inference_backend", "api">>, <<"model_name_or_path", "m1">>>>}

PoolInferenceCfgs == {<<<<"temperature", "t1">>>>}

(* ========================= adapters ==================================== *)

\* a fresh adapter: hf.py:34-47 (self.model = None), vllm.py:30-46
\* (self.llm = None), api_llm/base.py:26-34; shutdowns counts the calls of
\* shutdown, releases the times the resident model was dropped
NewAdapter(kind) == [kind |-> kind, loaded |-> FALSE, shutdowns |-> 0, releases |-> 0]

\* a shutdown that releases whether or not a model is loaded
ShutdownAlwaysReleases(a) ==
    [a EXCEPT !.loaded = FALSE, !.shutdowns = @ + 1, !.releases = @ + 1]

\* hf.py:148-158, vllm.py:132-142: a loaded model is dropped and the accelerator
\* state released, an adapter without a model only logs;
\* utils/shutdownable.py:5-28 for an API adapter, which owns no Shutdownable
\* and whose _is_shutting_down flag reads false before and after the call
Shutdown(a) ==
    IF a.kind \in {"hf", "vllm"} /\ a.loaded
    THEN [a EXCEPT !.loaded = FALSE, !.shutdowns = @ + 1, !.releases = @ + 1]
    ELSE [a EXCEPT !.shutdowns = @ + 1]

\* hf.py:72-79, vllm.py:95-101: a non-empty generate loads the model if absent
AfterGenerate(a, n) ==
    IF n = 0 \/ a.kind \notin {"hf", "vllm"} THEN a ELSE [a EXCEPT !.loaded = TRUE]

(* ====================== InferenceFactory =============================== *)

\* factory.py:85
IsHeavy(backend) == backend \in {"hf", "vllm"}

\* an eviction loop entered for the hf backend alone
EvictTargetsHfOnly(pl, h, backend) ==
    IF backend = "hf" THEN {k \in DOMAIN pl : k # h} ELSE {}

\* an eviction loop entered whatever the backend
EvictTargetsAlways(pl, h, backend) == {k \in DOMAIN pl : k # h}

\* factory.py:85-88: the keys whose adapter the loop shuts down
EvictTargets(pl, h, backend) ==
    IF IsHeavy(backend) THEN {k \in DOMAIN pl : k # h} ELSE {}

\* a lookup that never finds the fingerprint
IsPooledNever(pl, h) == FALSE

\* factory.py:90
IsPooled(pl, h) == h \in DOMAIN pl

\* factory.py:97-119 and api_llm/factory.py:32-53: the adapter kind constructed
\* for a model configuration, or the exception raised instead
Construct(m) ==
    LET backend == Get(m, "inference_backend")
    IN  IF backend = "api"
        THEN IF "model_sdk_type" \notin Keys(m) THEN [exc |-> "KeyError"]
             ELSE IF Get(m, "model_sdk_type") \in {"openai", "gemini", "anthropic"}
             THEN [exc |-> "none", kind |-> "api"]
             ELSE [exc |-> "ValueError"]
        ELSE IF IsHeavy(backend) THEN [exc |-> "none", kind |-> backend]
        ELSE [exc |-> "ValueError"]

\* the caller's two dicts as the call leaves them: a pool hit returns before
\* anything is touched (factory.py:90-91); otherwise the dicts themselves are
\* handed on (factory.py:97-119), api_llm/factory.py:32 pops model_sdk_type out
\* of the model dict, raising KeyError when it is absent, and
\* api_llm/base.py:32-34 pops the operational fields out of the inference dict
\* of an adapter that gets constructed
CallerAfter(m, ic, hit) ==
    IF hit \/ Get(m, "inference_backend") # "api" \/ "model_sdk_type" \notin Keys(m)
    THEN [m |-> m, ic |-> ic]
    ELSE [m  |-> Without(m, "model_sdk_type"),
          ic |-> IF Construct(m).exc = "none"
                 THEN Without(Without(Without(ic, "max_retry"), "max_workers"),
                              "sleep_seconds")
                 ELSE ic]

\* factory.py:76-122 run from start to end on pool pl and adapters ins
ResolveOutcome(pl, po, ins, m, ic) ==
    LET h       == dict_to_hash(m, ic)
        backend == Get(m, "inference_backend")
        shut    == {pl[k] : k \in EvictTargets(pl, h, backend)}
        ins1    == [i \in DOMAIN ins |-> IF i \in shut THEN Shutdown(ins[i]) ELSE ins[i]]
        prior   == IF h \in DOMAIN pl THEN pl[h] ELSE 0
        c       == Construct(m)
        base    == [pool |-> pl, porder |-> po, inst |-> ins1,
                    last |-> [h |-> h, backend |-> backend, ret |-> 0, exc |-> "none",
                              fresh |-> FALSE, shut |-> shut, prior |-> prior,
                              given |-> CallerAfter(m, ic, IsPooled(pl, h)),
                              again |-> FALSE, first |-> 0,
                              cache_exc |-> "none",
                              before |-> [pool |-> <<>>, inst |-> <<>>]]]
    IN  IF IsPooled(pl, h)
        THEN [base EXCEPT !.last.ret = pl[h]]
        ELSE IF c.exc # "none"
        THEN [base EXCEPT !.last.exc = c.exc]
        ELSE LET id == Len(ins1) + 1
             IN  [base EXCEPT !.pool = (h :> id) @@ pl,
                              !.porder = Append(po, h),
                              !.inst = Append(ins1, NewAdapter(c.kind)),
                              !.last.ret = id,
                              !.last.fresh = TRUE]

NoCall == [h |-> "none", backend |-> "none", ret |-> 0, exc |-> "none",
           fresh |-> FALSE, shut |-> {}, prior |-> 0,
           given |-> [m |-> <<>>, ic |-> <<>>], again |-> FALSE, first |-> 0,
           cache_exc |-> "none", before |-> [pool |-> <<>>, inst |-> <<>>]]

(* ---- InferenceFactory._get_inference_instance, called from one thread ---- *)
Resolve(m, ic) ==
    /\ nresolve < MaxResolves
    /\ LET o == ResolveOutcome(pool, porder, inst, m, ic)
       IN  /\ pool' = o.pool
           /\ porder' = o.porder
           /\ inst' = o.inst
           /\ last' = o.last
    /\ nresolve' = nresolve + 1
    /\ UNCHANGED <<th, batchVars, cacheVars, storeVars, scopeVars, keyVars, facade, shutVars>>

(* ---- _get_inference_instance called again with the very dicts the ---- *)
(* ---- latest call was given, after that call returned an adapter   ---- *)
ResolveAgain ==
    /\ nresolve < MaxResolves
    /\ last.backend # "none" /\ last.exc = "none"
    /\ LET o == ResolveOutcome(pool, porder, inst, last.given.m, last.given.ic)
       IN  /\ pool' = o.pool
           /\ porder' = o.porder
           /\ inst' = o.inst
           /\ last' = [o.last EXCEPT !.again = TRUE, !.first = last.ret]
    /\ nresolve' = nresolve + 1
    /\ UNCHANGED <<th, batchVars, cacheVars, storeVars, scopeVars, keyVars, facade, shutVars>>

(* ---- _generate on an adapter a resolve call returned, n requests ---- *)
AdapterGenerate(id, n) ==
    /\ id \in DOMAIN inst
    /\ inst' = [inst EXCEPT ![id] = AfterGenerate(@, n)]
    /\ UNCHANGED <<pool, porder, last, nresolve, th, batchVars, cacheVars, storeVars, scopeVars, keyVars, facade, shutVars>>

(* ========================= cache stores ================================ *)

Miss == [miss |-> TRUE]

\* no store call made yet
NoOp == [name |-> "none", key |-> Miss, value |-> Miss, exc |-> "none",
         val |-> Miss, attempts |-> 0, trips |-> 0, ok |-> TRUE, outs |-> <<>>,
         before |-> "none", before_key |-> Miss,
         pre |-> [dirty |-> {}, disk |-> <<>>, rstore |-> <<>>], closed |-> <<>>]

\* no override scope entered yet
NoScope == [pc |-> "out", new |-> <<>>, pre_cfgs |-> <<>>,
            pre_hash |-> dict_to_hash(<<>>, <<>>),
            pre_essential |-> dict_to_hash(<<>>, <<>>)]

\* type_utils.py:146-151: the copy of a request tagged with a repeat index, as
\* InferenceInterface.generate makes it for each repeat (base.py:67-70)
with_repeat_idx(req, k) == [req EXCEPT !.repeat_idx = k]

\* a fingerprint that leaves the repeat index out
GenerateKeyNoRepeat(req, ehash) ==
    [str |-> [system_prompt |-> req.system_prompt, conversation |-> req.conversation,
              cfgs_hash |-> ehash, prefilled |-> req.prefilled, repeat_idx |-> 0]]

\* the key the resident-model path hands to the store: cached.py:122-143, the
\* fingerprint of the five fields (sha256 taken as collision free)
GenerateKey(req, ehash) ==
    [str |-> [system_prompt |-> req.system_prompt, conversation |-> req.conversation,
              cfgs_hash |-> ehash, prefilled |-> req.prefilled,
              repeat_idx |-> req.repeat_idx]]

\* the key the remote-API path hands to the store: api_llm/base.py:126, 129 pass
\* the InferenceInput object itself
ObjectKey(req) == [obj |-> req]

IsStr(key) == "str" \in DOMAIN key

\* the value the resident-model path saves: cached.py:85-90
DictPayload(out, now) == [data |-> out, time |-> now]

\* the value the remote-API path saves: api_llm/base.py:129, the InferenceOutput
ObjectPayload(out) == [model |-> out]

IsDict(value) == "data" \in DOMAIN value

\* the store as one value
StoreState == [mem |-> mem, dirty |-> dirty, disk |-> disk, rstore |-> rstore,
               saved |-> saved]

\* a flush that writes nothing and clears nothing
FlushedNothing(st) == st

\* json_file.py:24-28: the stem of the file of a key, key.replace("/", "_"); a
\* fingerprint is a hex digest and holds no "/"
SafeKey(key) == IF key = [str |-> [raw |-> "a/b"]] THEN [str |-> [raw |-> "a_b"]] ELSE key

\* json_file.py:51-55; no two dirty keys of the runs modelled share a file
Flushed(st) ==
    [st EXCEPT !.disk = [f \in DOMAIN st.disk \cup {SafeKey(k) : k \in st.dirty} |->
                            IF \E k \in st.dirty : SafeKey(k) = f
                            THEN st.mem[CHOOSE k \in st.dirty : SafeKey(k) = f]
                            ELSE st.disk[f]],
               !.dirty = {}]

\* a stored entry json.loads rejects
Corrupt == [corrupt |-> TRUE]

\* what one attempt of a redis call can meet: the server answers, or the round
\* trip fails (ConnectionError, TimeoutError, ResponseError)
RedisOutcomes == {"ok", "down"}

\* a retry loop that always runs to its last attempt
AttemptsAll(good, limit) == limit

\* redis.py:52, 67: `for attempt in range(self.max_retries)`, left at the first
\* attempt that raises nothing; good[i]: attempt i raises nothing
Attempts(good, limit) ==
    IF \E i \in 1..limit : good[i]
    THEN CHOOSE i \in 1..limit : good[i] /\ \A j \in 1..(i - 1) : ~good[j]
    ELSE limit

\* redis.py:51-64. An object key makes the client raise DataError before anything
\* is sent; a corrupt entry makes json.loads raise after the round trip; every
\* exception is caught and the attempt repeated; exhaustion returns None
RedisLoad(st, key, outs, limit) ==
    LET found == IsStr(key) /\ key \in DOMAIN st.rstore
        good  == [i \in 1..limit |->
                    /\ IsStr(key)
                    /\ outs[i] = "ok"
                    /\ ~(found /\ st.rstore[key] = Corrupt)]
        n     == Attempts(good, limit)
        ok    == n > 0 /\ good[n]
    IN  [exc |-> "none",
         val |-> IF ok /\ found THEN st.rstore[key] ELSE Miss,
         attempts |-> n,
         trips |-> IF IsStr(key) THEN n ELSE 0,
         ok |-> ok]

\* redis.py:66-81. json.dumps of an InferenceOutput raises TypeError and an
\* object key raises DataError, both before anything is sent; every exception is
\* caught and the attempt repeated; exhaustion logs and returns
RedisSave(st, key, value, outs, limit) ==
    LET local == IsStr(key) /\ IsDict(value)
        good  == [i \in 1..limit |-> local /\ outs[i] = "ok"]
        n     == Attempts(good, limit)
        ok    == n > 0 /\ good[n]
    IN  [exc |-> "none",
         st |-> IF ok THEN [st EXCEPT !.rstore = (key :> value) @@ @] ELSE st,
         attempts |-> n,
         trips |-> IF local THEN n ELSE 0,
         ok |-> ok]

\* the outcomes of max_retries attempts against a server that is up, or down
Steady(up) == [i \in 1..max_retries |-> IF up THEN "ok" ELSE "down"]

\* json_file.py:41-42 (a dict lookup, no access to the directory; a pydantic
\* model is unhashable, so an object key raises TypeError) or redis.py:51-64;
\* outs: what the storage behind the store answers at each access of the call
LoadCacheImpl(st, key, outs) ==
    IF store_kind = "json_file"
    THEN [exc |-> IF IsStr(key) THEN "none" ELSE "TypeError",
          val |-> IF IsStr(key) /\ key \in DOMAIN st.mem THEN st.mem[key] ELSE Miss,
          attempts |-> 0, trips |-> 0, ok |-> IsStr(key)]
    ELSE RedisLoad(st, key, outs, max_retries)

\* a load that does not look at force_update
LoadIgnoringForceUpdate(st, key, outs) == LoadCacheImpl(st, key, outs)

\* cache_manager/base.py:10-13
load_cache(st, key, outs) ==
    IF force_update
    THEN [exc |-> "none", val |-> Miss, attempts |-> 0, trips |-> 0, ok |-> TRUE]
    ELSE LoadCacheImpl(st, key, outs)

\* json_file.py:44-49 with 51-55 (the first access of the flush failing: save_json
\* raises OSError, nothing is written and the dirty set is not cleared), or
\* redis.py:66-81
save_cache(st, key, value, outs) ==
    LET st1 == [st EXCEPT !.saved = @ \cup {value}]
    IN  IF store_kind = "json_file"
        THEN IF ~IsStr(key)
             THEN [exc |-> "TypeError", st |-> st1, attempts |-> 0, trips |-> 0,
                   ok |-> FALSE]
             ELSE LET st2 == [st1 EXCEPT !.mem = (key :> value) @@ @,
                                         !.dirty = @ \cup {key}]
                  IN  IF Cardinality(st2.dirty) >= flush_threshold
                      THEN IF outs[1] = "ok"
                           THEN [exc |-> "none", st |-> Flushed(st2), attempts |-> 1,
                                 trips |-> 1, ok |-> TRUE]
                           ELSE [exc |-> "OSError", st |-> st2, attempts |-> 1,
                                 trips |-> 1, ok |-> FALSE]
                      ELSE [exc |-> "none", st |-> st2, attempts |-> 0, trips |-> 0,
                            ok |-> TRUE]
        ELSE RedisSave(st1, key, value, outs, max_retries)

\* a load by the cached engine; up: the storage answers during this call
StoreLoad(st, key, up) ==
    LET l == load_cache(st, key, Steady(up))
    IN  [exc |-> l.exc, val |-> l.val]

\* a save by the cached engine
StoreSave(st, key, value, up) ==
    LET r == save_cache(st, key, value, Steady(up))
    IN  [exc |-> r.exc, st |-> r.st]

(* ========================= cached engine =============================== *)

\* the essential-configuration fingerprint of the bound adapter: base.py:204-206
\* with base.py:249-261, api_llm/base.py:152-163, vllm.py:144-151
EssentialHash(kind, m, ic) ==
    IF kind = "api"
    THEN dict_to_hash(Without(Without(m, "api_key_name"), "api_key"),
                      Without(Without(Without(ic, "max_retry"), "max_workers"),
                              "sleep_seconds"))
    ELSE IF kind = "vllm" THEN dict_to_hash(Without(m, "vllm_init_args"), ic)
    ELSE dict_to_hash(m, ic)

\* the configuration the bound adapter was constructed with
BoundModelCfg(kind) ==
    IF kind = "api" THEN Without(ApiCfg("m1", "openai"), "model_sdk_type")
    ELSE HeavyCfg(kind, "m1")

BoundHash(kind) ==
    EssentialHash(kind, BoundModelCfg(kind), <<<<"temperature", "t1">>>>)

\* what _single_generate can end with (openai_api.py:46-99): a reply, the
\* terminal error result after max_retry failures, or an escaping exception
ApiEndings == Replies \cup {"exhausted", "malformed"}

\* api_llm/base.py:119-130 for one request; o: how _single_generate ends
SingleGenerateWithCache(st, req, o, up) ==
    LET key == ObjectKey(req)
        l   == StoreLoad(st, key, up)
        out == IF o = "exhausted" THEN ErrorOutput(req) ELSE OkOutput(req, o)
        sv  == StoreSave(st, key, ObjectPayload(out), up)
    IN  \* the keys handed to load_cache (line 126) and save_cache (line 129)
        [lkeys |-> <<key>>, skeys |-> <<key>>] @@
        IF l.exc # "none"
        THEN [exc |-> l.exc, st |-> st, outs |-> <<>>, gens |-> 0, called |-> {}]
        ELSE IF l.val # Miss
        THEN [exc |-> "none", st |-> st, outs |-> <<l.val.model>>, gens |-> 0,
              called |-> {}]
        ELSE IF o = "malformed"
        THEN [exc |-> "Exception", st |-> st, outs |-> <<>>, gens |-> 1,
              called |-> {1}]
        ELSE IF sv.exc # "none"
        THEN [exc |-> sv.exc, st |-> sv.st, outs |-> <<>>, gens |-> 1, called |-> {1}]
        ELSE [exc |-> "none", st |-> sv.st, outs |-> <<out>>, gens |-> 1,
              called |-> {1}]

\* hf.py:97-100: generate_batch inserts the system turn into the request's own
\* conversation; vllm.py:70-74 works on a copy
AsGenerated(kind, req) ==
    IF kind = "hf"
    THEN [req EXCEPT !.conversation = <<Turn("system", req.system_prompt)>> \o @]
    ELSE req

\* hf.py:133-145, vllm.py:117-128
ResidentOutput(kind, req, text) ==
    [response |-> text, input |-> AsGenerated(kind, req), engine |-> kind,
     error |-> FALSE]

\* a hit test that never passes
IsHitNever(val) == FALSE

\* cached.py:66-71
IsHit(val) == val # Miss /\ IsDict(val)

\* cached.py:83-91: the saves of the fresh outputs, in order; an exception of
\* save_cache leaves the loop
RECURSIVE SaveFresh(_, _, _, _, _, _)
SaveFresh(st, kind, todo, texts, now, up) ==
    IF todo = <<>> THEN [exc |-> "none", st |-> st]
    ELSE LET i   == Head(todo).idx
             req == AsGenerated(kind, Head(todo).req)
             out == ResidentOutput(kind, Head(todo).req, texts[i])
             sv1 == StoreSave(st, GenerateKey(req, BoundHash(kind)),
                              DictPayload(out, now), up)
         IN  IF sv1.exc # "none" THEN sv1
             ELSE SaveFresh(sv1.st, kind, Tail(todo), texts, now, up)

\* the cached results first, the fresh ones after them
MergeResultsCachedFirst(n, hit, cached, fresh) == cached \o fresh

\* cached.py:92-102: position i takes the next cached result when i hit and the
\* next fresh output otherwise
MergeResults(n, hit, cached, fresh) ==
    [i \in 1..n |-> IF i \in hit THEN cached[Cardinality({j \in 1..i : j \in hit})]
                    ELSE fresh[Cardinality({j \in 1..i : j \notin hit})]]

\* cached.py:61-102 for a resident-model adapter; texts: the text the model
\* generates for each position, fails: the model's generate raises
ResidentGenerateWithCache(st, kind, reqs, texts, fails, now, up) ==
    LET n     == Len(reqs)
        looks == [i \in 1..n |-> StoreLoad(st, GenerateKey(reqs[i], BoundHash(kind)), up)]
        hit   == {i \in 1..n : IsHit(looks[i].val)}
        todo  == SelectSeq([i \in 1..n |-> [idx |-> i, req |-> reqs[i]]],
                           LAMBDA e : e.idx \notin hit)
        st1   == SaveFresh(st, kind, todo, texts, now, up)
        \* cached.py:71 and 80-82
        hits  == SelectSeq([i \in 1..n |-> i], LAMBDA i : i \in hit)
        cached_result == [k \in DOMAIN hits |-> looks[hits[k]].val.data]
        non_cached_outputs ==
            [k \in DOMAIN todo |-> ResidentOutput(kind, todo[k].req, texts[todo[k].idx])]
        outs  == MergeResults(n, hit, cached_result, non_cached_outputs)
        called == {todo[j].idx : j \in DOMAIN todo}
    IN  \* the keys of lines 64 and 84, the latter taken after _generate ran
        [lkeys |-> [i \in 1..n |-> GenerateKey(reqs[i], BoundHash(kind))],
         skeys |-> [i \in 1..n |-> GenerateKey(AsGenerated(kind, reqs[i]),
                                               BoundHash(kind))]] @@
        IF Len(todo) > 0 /\ fails
        THEN [exc |-> "Exception", st |-> st, outs |-> <<>>, gens |-> Len(todo),
              called |-> called]
        ELSE IF st1.exc # "none"
        THEN [exc |-> st1.exc, st |-> st1.st, outs |-> <<>>, gens |-> Len(todo),
              called |-> called]
        ELSE [exc |-> "none", st |-> st1.st, outs |-> outs, gens |-> Len(todo),
              called |-> called]

\* requests handed to the cached engine; each call gets fresh request objects
CacheRequests == {ReqUser(0), ReqUser(1)}
CacheBatches == SeqsUpTo(CacheRequests, MaxCacheBatch)

NoCachedCall == [reqs |-> <<>>, exc |-> "none", outs |-> <<>>, gens |-> 0,
                 called |-> {}, held |-> {}, up |-> TRUE, made |-> FALSE,
                 lkeys |-> <<>>, skeys |-> <<>>]

\* what is remembered of the call before the latest one
Earlier(c) == [reqs |-> c.reqs, exc |-> c.exc, outs |-> c.outs, up |-> c.up,
               made |-> c.made]

Apply(r, reqs, up) ==
    /\ mem' = r.st.mem
    /\ dirty' = r.st.dirty
    /\ disk' = r.st.disk
    /\ rstore' = r.st.rstore
    /\ saved' = r.st.saved
    /\ prev' = Earlier(cur)
    /\ cur' = [reqs |-> reqs, exc |-> r.exc, outs |-> r.outs, gens |-> r.gens,
               called |-> r.called,
               held |-> IF store_kind = "json_file" THEN DOMAIN mem ELSE DOMAIN rstore,
               up |-> up, made |-> TRUE, lkeys |-> r.lkeys, skeys |-> r.skeys]
    /\ ncalls' = ncalls + 1
    /\ UNCHANGED <<adapter_kind, store_kind, force_update, flush_threshold,
                   batchVars, poolVars, storeVars, scopeVars, keyVars, facade, shutVars>>

(* ---- CachedInference._generate bound to a remote-API adapter:        ---- *)
(* ---- cached.py:57-60, api_llm/base.py:36-46, no or one request       ---- *)
CachedGenerateApi(reqs, o, up) ==
    /\ adapter_kind = "api"
    /\ ncalls < MaxCalls
    /\ Len(reqs) <= 1
    /\ IF Len(reqs) = 0
       THEN Apply([exc |-> "none", st |-> StoreState, outs |-> <<>>, gens |-> 0,
                   called |-> {}, lkeys |-> <<>>, skeys |-> <<>>],
                  reqs, up)
       ELSE Apply(SingleGenerateWithCache(StoreState, reqs[1], o, up), reqs, up)

(* ---- CachedInference._generate bound to a resident-model adapter ---- *)
CachedGenerateResident(reqs, texts, fails, up) ==
    /\ adapter_kind \in {"hf", "vllm"}
    /\ ncalls < MaxCalls
    /\ Apply(ResidentGenerateWithCache(StoreState, adapter_kind, reqs, texts, fails,
                                        ncalls + 1, up), reqs, up)

\* the cached engine before its construction, for the other specifications
CacheIdle ==
    /\ adapter_kind = "api" /\ store_kind = "json_file" /\ force_update = FALSE
    /\ flush_threshold = DefaultFlushThreshold
    /\ mem = <<>> /\ dirty = {} /\ disk = <<>> /\ rstore = <<>> /\ saved = {}
    /\ prev = Earlier(NoCachedCall) /\ cur = NoCachedCall /\ ncalls = 0

\* CachedInference.__init__ over a fresh adapter and a fresh, empty store:
\* cached.py:27-32, cache_manager/base.py:6-8, json_file.py:12-22
CacheFresh ==
    /\ adapter_kind \in {"api", "hf", "vllm"}
    /\ store_kind \in {"json_file", "redis"}
    /\ force_update \in BOOLEAN
    /\ \E cfg \in IF store_kind = "redis" THEN {<<>>}
                  ELSE {<<>>, <<<<"flush_threshold", 1>>>>, <<<<"flush_threshold", 2>>>>} :
          flush_threshold = IF "flush_threshold" \in Keys(cfg)
                            THEN Get(cfg, "flush_threshold") ELSE DefaultFlushThreshold
    /\ mem = <<>> /\ dirty = {} /\ disk = <<>> /\ rstore = <<>> /\ saved = {}
    /\ prev = Earlier(NoCachedCall) /\ cur = NoCachedCall /\ ncalls = 0

NextCache ==
    \/ \E reqs \in CacheBatches, o \in ApiEndings, up \in BOOLEAN :
          CachedGenerateApi(reqs, o, up)
    \/ \E reqs \in CacheBatches, fails \in BOOLEAN, up \in BOOLEAN :
          \* the model samples: a call's text differs from the call before it
          \E text \in {IF ncalls % 2 = 0 THEN "y1" ELSE "y2"} :
             CachedGenerateResident(reqs, [i \in 1..Len(reqs) |-> text], fails, up)

\* no store called directly: redis.py:48 for the default of max_retries
StoreIdle ==
    /\ max_retries = DefaultMaxRetries /\ op = NoOp /\ nops = 0
    /\ write_failed = FALSE /\ saving = <<>>

\* no adapter under a configuration override
ScopeIdle ==
    /\ inference_cfgs = <<>> /\ cfgs_hash = dict_to_hash(<<>>, <<>>)
    /\ original_inference_cfgs = <<>> /\ original_cfgs_hash = dict_to_hash(<<>>, <<>>)
    /\ inference_essential_cfgs_hash = dict_to_hash(<<>>, <<>>)
    /\ scope = NoScope /\ outer = NoScope /\ nscopes = 0

\* no adapter built for comparison and no fingerprint taken
KeysIdle == built = <<>> /\ keyed = [req |-> Miss, keys |-> <<>>] /\ digests = <<>>

\* the objects of the ownership graphs
Objs == {"A", "B", "C"}

\* no shutdown call made
NoCascade == [nshut |-> 0, root |-> "none", ran |-> {}, prior_root |-> "none",
              prior_ran |-> {}]

\* no object holds another and nothing is being shut down
ShutIdle ==
    /\ attrs = [o \in Objs |-> {}]
    /\ is_shutting_down = [o \in Objs |-> FALSE]
    /\ stack = <<>> /\ cascade = NoCascade

\* generate not called yet
FacadeIdle ==
    facade = [called |-> FALSE, given |-> <<>>, repeat_cnt |-> 1,
              prompt_template |-> FALSE, heap |-> <<>>, repeat_inputs |-> <<>>,
              dispatched |-> <<>>, workers |-> 0, exc |-> "none",
              grouped_outputs |-> <<>>]

\* the engine before any generate call, for the other specifications
BatchIdle ==
    /\ max_retry = DefaultMaxRetry /\ max_workers = DefaultMaxWorkers
    /\ sleep_seconds = DefaultSleepSeconds
    /\ given_cfgs = <<>> /\ inputs = <<>> /\ pc = "idle" /\ wstate = <<>>
    /\ calls = <<>> /\ sleeps = <<>> /\ future = <<>> /\ order = <<>>
    /\ results = <<>> /\ ret = <<>> /\ exc = "none"

\* factory.py:16: the pool of a fresh process
PoolEmpty ==
    /\ pool = <<>> /\ porder = <<>> /\ inst = <<>> /\ last = NoCall
    /\ nresolve = 0 /\ th = <<>>

\* BaseApiLLMInference.__init__, api_llm/base.py:26-34
InitBatch ==
    /\ \E cfg \in InferenceCfgs :
          /\ given_cfgs = cfg
          /\ max_retry = CfgPop(cfg, "max_retry", DefaultMaxRetry)
          /\ max_workers = CfgPop(cfg, "max_workers", DefaultMaxWorkers)
          /\ sleep_seconds = CfgPop(cfg, "sleep_seconds", DefaultSleepSeconds)
    /\ PoolEmpty
    /\ CacheIdle
    /\ StoreIdle
    /\ ScopeIdle /\ KeysIdle /\ FacadeIdle /\ ShutIdle
    /\ inputs = <<>>
    /\ pc = "idle"
    /\ wstate = <<>>
    /\ calls = <<>>
    /\ sleeps = <<>>
    /\ future = <<>>
    /\ order = <<>>
    /\ results = <<>>
    /\ ret = <<>>
    /\ exc = "none"

NextBatch ==
    \/ \E b \in Batches : Generate(b)
    \/ \E i \in Idx : StartWorker(i)
    \/ \E i \in Idx, o \in Outcomes : BackendCall(i, o)
    \/ \E i \in Idx : GiveUp(i)
    \/ Collect
    \/ Finish
    \/ FinishDirect

SpecBatch == InitBatch /\ [][NextBatch]_vars

InitPool == BatchIdle /\ PoolEmpty /\ CacheIdle /\ StoreIdle /\ ScopeIdle /\ KeysIdle /\ FacadeIdle /\ ShutIdle

NextPool ==
    \/ \E m \in ModelCfgs, ic \in PoolInferenceCfgs : Resolve(m, ic)
    \/ \E id \in DOMAIN inst, n \in 0..1 : AdapterGenerate(id, n)

SpecPool == InitPool /\ [][NextPool]_vars

\* cache_manager/factory.py:7-11 with utils/registry.py:27-31 and the
\* registrations of json_file.py:10 and redis.py:16: the exception
\* get_cache_manager raises for a cache configuration, if any
GetCacheManager(cache_cfgs) ==
    IF "cache_type" \notin Keys(cache_cfgs) THEN "ValueError"
    ELSE IF Get(cache_cfgs, "cache_type") \notin {"json_file", "redis"} THEN "KeyError"
    ELSE "none"

\* cache configurations: none given (None), or a dict without a store kind,
\* with an unknown one, or with a registered one
CacheCfgs ==
    {[none |-> TRUE]} \cup
    {[cfgs |-> c] : c \in {<<>>, <<<<"cache_type", "memcached">>>>,
                           <<<<"cache_type", "json_file">>>>, <<<<"cache_type", "redis">>>>}}

(* ---- InferenceFactory.get_inference_instance, factory.py:42-48: the ---- *)
(* ---- adapter is resolved first, the store is built after it         ---- *)
GetInferenceInstance(m, ic, cache) ==
    /\ nresolve < MaxResolves
    /\ LET o == ResolveOutcome(pool, porder, inst, m, ic)
           c == IF o.last.exc # "none" \/ cache = [none |-> TRUE] THEN "none"
                ELSE GetCacheManager(cache.cfgs)
       IN  /\ pool' = o.pool
           /\ porder' = o.porder
           /\ inst' = o.inst
           /\ last' = [o.last EXCEPT !.cache_exc = c,
                                     !.exc = IF c # "none" THEN c ELSE @,
                                     !.ret = IF c # "none" THEN 0 ELSE @,
                                     !.before = [pool |-> pool, inst |-> inst]]
    /\ nresolve' = nresolve + 1
    /\ UNCHANGED <<th, batchVars, cacheVars, storeVars, scopeVars, keyVars, facade, shutVars>>

NextInstance ==
    \E m \in ModelCfgs, ic \in PoolInferenceCfgs, cache \in CacheCfgs :
       GetInferenceInstance(m, ic, cache)

SpecInstance == InitPool /\ [][NextInstance]_vars

\* resolve calls, some of them repeated with the same dicts
NextReuse == NextPool \/ ResolveAgain

SpecReuse == InitPool /\ [][NextReuse]_vars

InitCache == CacheFresh /\ BatchIdle /\ PoolEmpty /\ StoreIdle /\ ScopeIdle /\ KeysIdle /\ FacadeIdle /\ ShutIdle

SpecCache == InitCache /\ [][NextCache]_vars

(* ============ InferenceFactory called from several threads ============= *)

Threads == 1..NumThreads

IdleFrame == [pc |-> "idle", m |-> <<>>, ic |-> <<>>, h |-> "none", backend |-> "none",
              pos |-> 0, size0 |-> 0, fresh |-> 0, ret |-> 0, exc |-> "none"]

(* ---- factory.py:76-82: the fingerprint and the backend kind ---- *)
TCall(t, m, ic) ==
    /\ th[t].pc = "idle"
    /\ th' = [th EXCEPT ![t] = [@ EXCEPT !.pc = "called", !.m = m, !.ic = ic,
                                         !.h = dict_to_hash(m, ic),
                                         !.backend = Get(m, "inference_backend")]]
    /\ UNCHANGED <<pool, porder, inst, last, nresolve, batchVars, cacheVars, storeVars, scopeVars, keyVars, facade, shutVars>>

(* ---- factory.py:85-86: the loop over the pool's items starts ---- *)
TLoop(t) ==
    /\ th[t].pc = "called"
    /\ th' = [th EXCEPT ![t] =
                IF IsHeavy(th[t].backend)
                THEN [@ EXCEPT !.pc = "evict", !.pos = 0, !.size0 = Len(porder)]
                ELSE [@ EXCEPT !.pc = "check"]]
    /\ UNCHANGED <<pool, porder, inst, last, nresolve, batchVars, cacheVars, storeVars, scopeVars, keyVars, facade, shutVars>>

(* ---- factory.py:86-88: one pass of the loop; a dict that changed size ---- *)
(* ---- since the loop started makes the iterator raise RuntimeError     ---- *)
TEvict(t) ==
    /\ th[t].pc = "evict"
    /\ IF Len(porder) # th[t].size0
       THEN /\ th' = [th EXCEPT ![t] = [@ EXCEPT !.pc = "raised", !.exc = "RuntimeError"]]
            /\ UNCHANGED inst
       ELSE IF th[t].pos = th[t].size0
       THEN /\ th' = [th EXCEPT ![t] = [@ EXCEPT !.pc = "check"]]
            /\ UNCHANGED inst
       ELSE LET k == porder[th[t].pos + 1]
            IN  /\ th' = [th EXCEPT ![t] = [@ EXCEPT !.pos = @ + 1]]
                /\ inst' = IF k # th[t].h
                           THEN [inst EXCEPT ![pool[k]] = Shutdown(@)]
                           ELSE inst
    /\ UNCHANGED <<pool, porder, last, nresolve, batchVars, cacheVars, storeVars, scopeVars, keyVars, facade, shutVars>>

(* ---- factory.py:90-91 ---- *)
TCheck(t) ==
    /\ th[t].pc = "check"
    /\ th' = [th EXCEPT ![t] =
                IF IsPooled(pool, th[t].h)
                THEN [@ EXCEPT !.pc = "done", !.ret = pool[th[t].h]]
                ELSE [@ EXCEPT !.pc = "create"]]
    /\ UNCHANGED <<pool, porder, inst, last, nresolve, batchVars, cacheVars, storeVars, scopeVars, keyVars, facade, shutVars>>

(* ---- factory.py:93-119: the adapter is constructed, or the call raises ---- *)
TCreate(t) ==
    /\ th[t].pc = "create"
    /\ LET c == Construct(th[t].m)
       IN  IF c.exc # "none"
           THEN /\ th' = [th EXCEPT ![t] = [@ EXCEPT !.pc = "raised", !.exc = c.exc]]
                /\ UNCHANGED inst
           ELSE /\ inst' = Append(inst, NewAdapter(c.kind))
                /\ th' = [th EXCEPT ![t] = [@ EXCEPT !.pc = "insert",
                                                     !.fresh = Len(inst) + 1]]
    /\ UNCHANGED <<pool, porder, last, nresolve, batchVars, cacheVars, storeVars, scopeVars, keyVars, facade, shutVars>>

(* ---- factory.py:120-122 ---- *)
TInsert(t) ==
    /\ th[t].pc = "insert"
    /\ pool' = (th[t].h :> th[t].fresh) @@ pool
    /\ porder' = IF th[t].h \in DOMAIN pool THEN porder ELSE Append(porder, th[t].h)
    /\ th' = [th EXCEPT ![t] = [@ EXCEPT !.pc = "done", !.ret = th[t].fresh]]
    /\ UNCHANGED <<inst, last, nresolve, batchVars, cacheVars, storeVars, scopeVars, keyVars, facade, shutVars>>

InitConc ==
    /\ BatchIdle /\ CacheIdle /\ StoreIdle /\ ScopeIdle /\ KeysIdle /\ FacadeIdle /\ ShutIdle
    /\ pool = <<>> /\ porder = <<>> /\ inst = <<>> /\ last = NoCall /\ nresolve = 0
    /\ th = [t \in Threads |-> IdleFrame]

NextConc ==
    \/ \E t \in Threads, m \in ModelCfgs, ic \in PoolInferenceCfgs : TCall(t, m, ic)
    \/ \E t \in Threads : TLoop(t)
    \/ \E t \in Threads : TEvict(t)
    \/ \E t \in Threads : TCheck(t)
    \/ \E t \in Threads : TCreate(t)
    \/ \E t \in Threads : TInsert(t)

SpecConc == InitConc /\ [][NextConc]_vars

(* ============== a cache store called directly, one call at a time ======= *)

\* keys and values handed to a store: the fingerprints and dict payloads of the
\* resident path (cached.py:84-91), the objects of the remote-API path
\* (api_llm/base.py:126-129)
StoreKeys ==
    {GenerateKey(ReqUser(0), BoundHash("vllm")),
     GenerateKey(ReqUser(1), BoundHash("vllm")),
     ObjectKey(ReqUser(0)),
     [str |-> [raw |-> "a/b"]]}

StoreValues ==
    {DictPayload(ResidentOutput("vllm", ReqUser(0), t), 1) : t \in Replies}
        \cup {ObjectPayload(OkOutput(ReqUser(0), "y1"))}

\* what the storage holds when the store is constructed: nothing, or a valid
\* entry and one that cannot be decoded
Preloaded ==
    {<<>>,
     (GenerateKey(ReqUser(0), BoundHash("vllm")) :>
          DictPayload(ResidentOutput("vllm", ReqUser(0), "y1"), 0))
       @@ (GenerateKey(ReqPrefilled, BoundHash("vllm")) :> Corrupt)}

\* json_file.py:30-39: the files that decode, by key
Decodable(files) ==
    [k \in {x \in DOMAIN files : files[x] # Corrupt} |-> files[k]]

OpRecord(name, key, value, r, outs) ==
    [name |-> name, key |-> key, value |-> value, exc |-> r.exc,
     val |-> IF name = "load" THEN r.val ELSE Miss,
     attempts |-> r.attempts, trips |-> r.trips, ok |-> r.ok, outs |-> outs,
     before |-> op.name, before_key |-> op.key,
     pre |-> [dirty |-> dirty, disk |-> disk, rstore |-> rstore], closed |-> <<>>]

StoreFrame ==
    UNCHANGED <<adapter_kind, store_kind, force_update, flush_threshold, prev,
                cur, ncalls, max_retries, saving, batchVars, poolVars, scopeVars, keyVars, facade, shutVars>>

(* ---- BaseCacheManager.load_cache(key): cache_manager/base.py:10-13 ---- *)
LoadCache(key, outs) ==
    /\ op.name # "del"
    /\ nops < MaxOps
    /\ op' = OpRecord("load", key, Miss, load_cache(StoreState, key, outs), outs)
    /\ nops' = nops + 1
    /\ UNCHANGED <<mem, dirty, disk, rstore, saved, write_failed>>
    /\ StoreFrame

(* ---- save_cache(key, value): json_file.py:44-55, redis.py:66-81 ---- *)
SaveCache(key, value, outs) ==
    /\ op.name # "del"
    /\ nops < MaxOps
    /\ LET r == save_cache(StoreState, key, value, outs)
       IN  /\ mem' = r.st.mem
           /\ dirty' = r.st.dirty
           /\ disk' = r.st.disk
           /\ rstore' = r.st.rstore
           /\ saved' = r.st.saved
           /\ op' = OpRecord("save", key, value, r, outs)
           /\ write_failed' = (write_failed \/ r.exc = "OSError")
    /\ nops' = nops + 1
    /\ StoreFrame

(* ---- JSONFileCacheManager.__del__: json_file.py:57-58; up false: the    ---- *)
(* ---- first write of the flush raises and the interpreter drops the error ---- *)
Teardown(up) ==
    /\ store_kind = "json_file"
    /\ op.name # "del"
    /\ LET st == IF up \/ dirty = {} THEN Flushed(StoreState) ELSE StoreState
       IN  /\ disk' = st.disk
           /\ dirty' = st.dirty
    /\ write_failed' = (write_failed \/ (~up /\ dirty # {}))
    /\ op' = [NoOp EXCEPT !.name = "del", !.before = op.name, !.before_key = op.key,
                          !.pre = [dirty |-> dirty, disk |-> disk, rstore |-> rstore]]
    /\ UNCHANGED <<mem, rstore, saved, nops>>
    /\ StoreFrame

(* ---- a new JSONFileCacheManager on the directory of one that was torn ---- *)
(* ---- down: json_file.py:12-22 with 30-39, each file loaded under its stem ---- *)
Reopen ==
    /\ store_kind = "json_file"
    /\ op.name = "del"
    /\ mem' = Decodable(disk)
    /\ dirty' = {}
    /\ op' = [NoOp EXCEPT !.name = "open", !.before = op.name,
                          !.before_key = op.before_key,
                          !.pre = [dirty |-> dirty, disk |-> disk, rstore |-> rstore],
                          !.closed = mem]
    /\ UNCHANGED <<disk, rstore, saved, nops, write_failed>>
    /\ StoreFrame

\* the constructors: cache_manager/base.py:6-8, json_file.py:12-22 (the files of
\* the directory that decode are loaded), redis.py:18-49
InitStore ==
    /\ BatchIdle /\ PoolEmpty /\ ScopeIdle /\ KeysIdle /\ FacadeIdle /\ ShutIdle
    /\ adapter_kind = "api"
    /\ store_kind \in {"json_file", "redis"}
    /\ force_update \in BOOLEAN
    /\ \E cfg \in {<<>>, <<<<"flush_threshold", 1>>>>, <<<<"flush_threshold", 2>>>>,
                   <<<<"max_retries", 1>>>>, <<<<"max_retries", 2>>>>} :
          /\ "flush_threshold" \in Keys(cfg) => store_kind = "json_file"
          /\ "max_retries" \in Keys(cfg) => store_kind = "redis"
          /\ flush_threshold = IF "flush_threshold" \in Keys(cfg)
                               THEN Get(cfg, "flush_threshold")
                               ELSE DefaultFlushThreshold
          /\ max_retries = IF "max_retries" \in Keys(cfg)
                           THEN Get(cfg, "max_retries") ELSE DefaultMaxRetries
    /\ \E held \in Preloaded :
          IF store_kind = "json_file"
          THEN disk = held /\ mem = Decodable(held) /\ rstore = <<>>
          ELSE rstore = held /\ disk = <<>> /\ mem = <<>>
    /\ dirty = {} /\ saved = {}
    /\ prev = Earlier(NoCachedCall) /\ cur = NoCachedCall /\ ncalls = 0
    /\ op = NoOp /\ nops = 0 /\ write_failed = FALSE /\ saving = <<>>

NextStore ==
    \/ \E k \in StoreKeys, outs \in [1..max_retries -> RedisOutcomes] :
          LoadCache(k, outs)
    \/ \E k \in StoreKeys, v \in StoreValues,
          outs \in [1..max_retries -> RedisOutcomes] :
          \* the resident path saves dicts under fingerprints, the remote-API
          \* path objects under objects
          (IsStr(k) <=> IsDict(v)) /\ SaveCache(k, v, outs)
    \/ \E up \in BOOLEAN : Teardown(up)
    \/ Reopen

SpecStore == InitStore /\ [][NextStore]_vars

(* ======== JSONFileCacheManager.save_cache called from several workers ==== *)

Savers == 1..NumSavers

\* the keys and values handed to a store: fingerprints of requests, dict payloads
StrKeys == {GenerateKey(r, BoundHash("vllm")) : r \in CacheRequests}
DictValues == {DictPayload(ResidentOutput("vllm", ReqUser(0), t), 1) : t \in Replies}

IdleSave == [pc |-> "idle", key |-> Miss, value |-> Miss, todo |-> {}]

\* a worker enters save_cache(key, value): json_file.py:44
SvCall(w, key, value) ==
    /\ saving[w].pc = "idle"
    /\ nops < MaxSaves
    /\ saving' = [saving EXCEPT ![w] = [pc |-> "store", key |-> key,
                                        value |-> value, todo |-> {}]]
    /\ nops' = nops + 1
    /\ UNCHANGED <<mem, dirty, disk>>

\* json_file.py:45
SvStore(w) ==
    /\ saving[w].pc = "store"
    /\ mem' = (saving[w].key :> saving[w].value) @@ mem
    /\ saving' = [saving EXCEPT ![w].pc = "mark"]
    /\ UNCHANGED <<dirty, disk, nops>>

\* json_file.py:46
SvMark(w) ==
    /\ saving[w].pc = "mark"
    /\ dirty' = dirty \cup {saving[w].key}
    /\ saving' = [saving EXCEPT ![w].pc = "test"]
    /\ UNCHANGED <<mem, disk, nops>>

\* json_file.py:48 and, when the threshold is reached, 52: list(self._dirty_keys)
SvTest(w) ==
    /\ saving[w].pc = "test"
    /\ saving' = IF Cardinality(dirty) >= flush_threshold
                 THEN [saving EXCEPT ![w].pc = "flush", ![w].todo = dirty]
                 ELSE [saving EXCEPT ![w] = IdleSave]
    /\ UNCHANGED <<mem, dirty, disk, nops>>

\* json_file.py:52-54: one turn of the loop over the copied keys (a set is
\* iterated in no particular order)
SvWrite(w) ==
    /\ saving[w].pc = "flush"
    /\ \E k \in saving[w].todo :
          /\ disk' = (SafeKey(k) :> mem[k]) @@ disk
          /\ saving' = [saving EXCEPT ![w].todo = @ \ {k},
                                      ![w].pc = IF saving[w].todo = {k}
                                                THEN "clear" ELSE "flush"]
    /\ UNCHANGED <<mem, dirty, nops>>

\* json_file.py:55
SvClear(w) ==
    /\ saving[w].pc = "clear"
    /\ dirty' = {}
    /\ saving' = [saving EXCEPT ![w] = IdleSave]
    /\ UNCHANGED <<mem, disk, nops>>

\* what no step of save_cache touches
SvFrame ==
    UNCHANGED <<adapter_kind, store_kind, force_update, flush_threshold, rstore,
                saved, prev, cur, ncalls, max_retries, op, write_failed,
                batchVars, poolVars, scopeVars, keyVars, facade, shutVars>>

\* a fresh JSONFileCacheManager over an empty directory, shared by the workers:
\* json_file.py:12-22
InitStoreConc ==
    /\ BatchIdle /\ PoolEmpty /\ ScopeIdle /\ KeysIdle /\ FacadeIdle /\ ShutIdle
    /\ adapter_kind = "api" /\ store_kind = "json_file" /\ force_update = FALSE
    /\ flush_threshold \in {1, 2}
    /\ mem = <<>> /\ dirty = {} /\ disk = <<>> /\ rstore = <<>> /\ saved = {}
    /\ prev = Earlier(NoCachedCall) /\ cur = NoCachedCall /\ ncalls = 0
    /\ max_retries = DefaultMaxRetries /\ op = NoOp /\ nops = 0
    /\ write_failed = FALSE
    /\ saving = [w \in Savers |-> IdleSave]

NextStoreConc ==
    \/ \E w \in Savers, k \in StrKeys, v \in DictValues : SvCall(w, k, v) /\ SvFrame
    \/ \E w \in Savers : SvStore(w) /\ SvFrame
    \/ \E w \in Savers : SvMark(w) /\ SvFrame
    \/ \E w \in Savers : SvTest(w) /\ SvFrame
    \/ \E w \in Savers : SvWrite(w) /\ SvFrame
    \/ \E w \in Savers : SvClear(w) /\ SvFrame

SpecStoreConc == InitStoreConc /\ [][NextStoreConc]_vars

(* ============ scoped override of an adapter's configuration ============ *)

\* dict.update: a key already present keeps its place and takes the new value,
\* a new key is appended
Update(d, new) ==
    LET kept  == [i \in DOMAIN d |->
                    IF d[i][1] \in Keys(new) THEN <<d[i][1], Get(new, d[i][1])>>
                    ELSE d[i]]
        added == SelectSeq(new, LAMBDA e : e[1] \notin Keys(d))
    IN  kept \o added

\* a restore function that leaves the configuration as the body left it
RestoredCfgsKept(current, original) == current

\* base.py:236: the restore function rebinds inference_cfgs to the copy taken
\* on entry
RestoredCfgs(current, original) == original

\* the model configuration of the adapter under override
ScopeModelCfg == HeavyCfg("hf", "m1")

\* inference configurations an adapter is constructed with, and overrides
ScopeCfgs ==
    {<<>>,
     <<<<"temperature", "t1">>>>,
     <<<<"temperature", "t1">>, <<"top_p", "p1">>>>,
     <<<<"top_p", "p1">>, <<"temperature", "t2">>>>}

Overrides ==
    {<<>>,
     <<<<"temperature", "t2">>>>,
     <<<<"top_p", "p2">>>>,
     <<<<"seed", "s1">>>>,
     <<<<"temperature", "t1">>, <<"seed", "s1">>>>}

(* ---- _TempConfigUpdater.__enter__: base.py:164-170 with 208-239 ---- *)
Enter(new) ==
    /\ scope.pc # "in"
    /\ nscopes < MaxScopes
    /\ original_inference_cfgs' = inference_cfgs
    /\ original_cfgs_hash' = cfgs_hash
    /\ inference_cfgs' = Update(inference_cfgs, new)
    /\ cfgs_hash' = dict_to_hash(ScopeModelCfg, inference_cfgs')
    /\ scope' = [pc |-> "in", new |-> new, pre_cfgs |-> inference_cfgs,
                 pre_hash |-> cfgs_hash,
                 pre_essential |-> inference_essential_cfgs_hash]
    /\ outer' = NoScope
    /\ nscopes' = nscopes + 1
    /\ UNCHANGED <<inference_essential_cfgs_hash,
                   batchVars, poolVars, cacheVars, storeVars, keyVars, facade, shutVars>>

(* ---- __enter__ of a second _TempConfigUpdater on the same adapter, inside ---- *)
(* ---- the body of the first: base.py:164-170 with 208-239                 ---- *)
EnterInner(new) ==
    /\ scope.pc = "in"
    /\ outer.pc # "in"
    /\ nscopes < MaxScopes
    /\ original_inference_cfgs' = inference_cfgs
    /\ original_cfgs_hash' = cfgs_hash
    /\ inference_cfgs' = Update(inference_cfgs, new)
    /\ cfgs_hash' = dict_to_hash(ScopeModelCfg, inference_cfgs')
    /\ outer' = scope
    /\ scope' = [pc |-> "in", new |-> new, pre_cfgs |-> inference_cfgs,
                 pre_hash |-> cfgs_hash,
                 pre_essential |-> inference_essential_cfgs_hash]
    /\ nscopes' = nscopes + 1
    /\ UNCHANGED <<inference_essential_cfgs_hash,
                   batchVars, poolVars, cacheVars, storeVars, keyVars, facade, shutVars>>

(* ---- __exit__ of the inner scope: base.py:172-177 with 234-237; control ---- *)
(* ---- is back in the body of the outer scope                           ---- *)
ExitInner(raised) ==
    /\ scope.pc = "in"
    /\ outer.pc = "in"
    /\ inference_cfgs' = RestoredCfgs(inference_cfgs, original_inference_cfgs)
    /\ cfgs_hash' = original_cfgs_hash
    /\ scope' = outer
    /\ outer' = [scope EXCEPT !.pc = IF raised THEN "raised" ELSE "exited"]
    /\ UNCHANGED <<original_inference_cfgs, original_cfgs_hash,
                   inference_essential_cfgs_hash, nscopes,
                   batchVars, poolVars, cacheVars, storeVars, keyVars, facade, shutVars>>

(* ---- _TempConfigUpdater.__exit__: base.py:172-177 with 234-237; the body ---- *)
(* ---- returned (raised false) or raised, and the exception propagates  ---- *)
Exit(raised) ==
    /\ scope.pc = "in"
    /\ outer.pc # "in"
    /\ inference_cfgs' = RestoredCfgs(inference_cfgs, original_inference_cfgs)
    /\ cfgs_hash' = original_cfgs_hash
    /\ scope' = [scope EXCEPT !.pc = IF raised THEN "raised" ELSE "exited"]
    /\ UNCHANGED <<original_inference_cfgs, original_cfgs_hash,
                   inference_essential_cfgs_hash, outer, nscopes,
                   batchVars, poolVars, cacheVars, storeVars, keyVars, facade, shutVars>>

\* BaseInference.__init__: base.py:194-206
InitScope ==
    /\ BatchIdle /\ PoolEmpty /\ CacheIdle /\ StoreIdle /\ KeysIdle /\ FacadeIdle /\ ShutIdle
    /\ inference_cfgs \in ScopeCfgs
    /\ cfgs_hash = dict_to_hash(ScopeModelCfg, inference_cfgs)
    /\ original_inference_cfgs = <<>>
    /\ original_cfgs_hash = dict_to_hash(<<>>, <<>>)
    /\ inference_essential_cfgs_hash = EssentialHash("hf", ScopeModelCfg, inference_cfgs)
    /\ scope = NoScope
    /\ outer = NoScope
    /\ nscopes = 0

NextScope ==
    \/ \E new \in Overrides : Enter(new)
    \/ \E raised \in BOOLEAN : Exit(raised)

SpecScope == InitScope /\ [][NextScope]_vars

\* cached.py:122-143 over this adapter: the key a CachedInference bound to it
\* computes for a request, from the adapter's inference_essential_cfgs_hash
\* property (base.py:245-247)
EngineKey(req) == GenerateKey(req, inference_essential_cfgs_hash)

\* scopes one after another or one inside another
NextNested ==
    \/ NextScope
    \/ \E new \in Overrides : EnterInner(new)
    \/ \E raised \in BOOLEAN : ExitInner(raised)

SpecNested == InitScope /\ [][NextNested]_vars

(* ============ adapters built side by side, their cache keys ============ *)

(* ---- BaseApiLLMInference.__init__(model_cfgs, inference_cfgs):          ---- *)
(* ---- base.py:194-206 takes both fingerprints, api_llm/base.py:29-34     ---- *)
(* ---- then pops the operational fields out of inference_cfgs             ---- *)
BuildApi(m, ic) ==
    /\ Len(built) < MaxBuilt
    /\ built' = Append(built,
                  [given_model |-> m, given_inference |-> ic,
                   cfgs_hash |-> dict_to_hash(m, ic),
                   essential |-> EssentialHash("api", m, ic),
                   model_cfgs |-> m,
                   inference_cfgs |-> Without(Without(Without(ic, "max_retry"),
                                                      "max_workers"), "sleep_seconds")])
    /\ UNCHANGED <<keyed, digests, batchVars, poolVars, cacheVars, storeVars, scopeVars, facade, shutVars>>

(* ---- one request looked up through a CachedInference over each adapter: ---- *)
(* ---- cached.py:57-60 hands the inputs to generate_with_cache, and        ---- *)
(* ---- api_llm/base.py:126 loads under the InferenceInput object           ---- *)
CacheKeys(req) ==
    /\ Len(built) = MaxBuilt
    /\ keyed' = [req |-> req, keys |-> [i \in DOMAIN built |-> ObjectKey(req)]]
    /\ UNCHANGED <<built, digests, batchVars, poolVars, cacheVars, storeVars, scopeVars, facade, shutVars>>

InitKeys ==
    BatchIdle /\ PoolEmpty /\ CacheIdle /\ StoreIdle /\ ScopeIdle /\ KeysIdle /\ FacadeIdle /\ ShutIdle

NextKeys ==
    \/ \E key \in {<<>>, <<<<"api_key", "k1">>>>, <<<<"api_key", "k2">>>>,
                    <<<<"api_key_name", "ENV">>, <<"api_key", "k1">>>>},
          t \in {"t1", "t2"},
          tune \in {<<>>, <<<<"max_retry", 1>>>>, <<<<"max_retry", 2>>>>,
                    <<<<"max_workers", 4>>>>, <<<<"sleep_seconds", 5>>>>} :
          BuildApi(Without(ApiCfg("m1", "openai"), "model_sdk_type") \o key,
                   tune \o <<<<"temperature", t>>>>)
    \/ \E req \in CacheRequests : CacheKeys(req)

SpecKeys == InitKeys /\ [][NextKeys]_vars

(* ================= dict_to_hash over Python values ===================== *)

\* the Python values a configuration holds, each tagged with its type
PyStr(s) == [py |-> "str", s |-> s]
PyInt(n) == [py |-> "int", n |-> n]
PyList(xs) == [py |-> "list", items |-> xs]
PyTuple(xs) == [py |-> "tuple", items |-> xs]
\* a dict is its <<key, value>> pairs in insertion order, the keys all str or
\* all int (sort_keys raises TypeError on a dict that mixes the two)
PyDict(ps) == [py |-> "dict", pairs |-> ps]

\* the JSON text of a dict key: a str as it is, an int in decimal
KeyText(k) == IF k.py = "int" THEN ToString(k.n) ELSE k.s

\* utils/tools.py:20, json.dumps(d, sort_keys=True), as the JSON document it
\* writes: a list and a tuple are both written as an array, the members of an
\* object in the order of their keys, so as the set of members
RECURSIVE json_dumps(_)
json_dumps(v) ==
    IF v.py = "dict"
    THEN [json |-> "object",
          members |-> {<<KeyText(v.pairs[i][1]), json_dumps(v.pairs[i][2])>> :
                          i \in DOMAIN v.pairs}]
    ELSE IF v.py \in {"list", "tuple"}
    THEN [json |-> "array", elems |-> [i \in DOMAIN v.items |-> json_dumps(v.items[i])]]
    ELSE IF v.py = "int" THEN [json |-> "number", n |-> v.n]
    ELSE [json |-> "string", s |-> v.s]

(* ---- dict_to_hash(digests[i].arg), utils/tools.py:18-21, sha256 taken ---- *)
(* ---- as collision free on the dumped text                              ---- *)
Digest(i) ==
    /\ digests[i].digest = Miss
    /\ digests' = [digests EXCEPT ![i].digest = json_dumps(digests[i].arg)]
    /\ UNCHANGED <<built, keyed, batchVars, poolVars, cacheVars, storeVars, scopeVars, facade, shutVars>>

\* the dict of factory.py:79 and base.py:197-200, {"model_cfgs": ...,
\* "inference_cfgs": ...}, with its keys in either order at both levels, the
\* stop sequences a list or a tuple and the logit_bias keyed by int or by str
PyConfigs ==
    LET model == PyDict(<<<<PyStr("model_name_or_path"), PyStr("m1")>>>>)
        Stops == {PyList(<<PyStr("a"), PyStr("b")>>), PyTuple(<<PyStr("a"), PyStr("b")>>),
                  PyList(<<PyStr("b"), PyStr("a")>>)}
        Biases == {<<>>,
                   <<<<PyStr("logit_bias"), PyDict(<<<<PyInt(1), PyInt(5)>>>>)>>>>,
                   <<<<PyStr("logit_bias"), PyDict(<<<<PyStr("1"), PyInt(5)>>>>)>>>>}
        Inference(t, stop, bias, swapped) ==
            PyDict((IF swapped
                    THEN <<<<PyStr("stop"), stop>>, <<PyStr("temperature"), PyInt(t)>>>>
                    ELSE <<<<PyStr("temperature"), PyInt(t)>>, <<PyStr("stop"), stop>>>>)
                   \o bias)
    IN  {PyDict(IF top
                THEN <<<<PyStr("inference_cfgs"), Inference(t, stop, bias, swapped)>>,
                       <<PyStr("model_cfgs"), model>>>>
                ELSE <<<<PyStr("model_cfgs"), model>>,
                       <<PyStr("inference_cfgs"), Inference(t, stop, bias, swapped)>>>>) :
            t \in 1..2, stop \in Stops, bias \in Biases,
            swapped \in BOOLEAN, top \in BOOLEAN}

\* two configurations, neither fingerprinted yet
InitDigest ==
    /\ BatchIdle /\ PoolEmpty /\ CacheIdle /\ StoreIdle /\ ScopeIdle /\ FacadeIdle /\ ShutIdle
    /\ built = <<>> /\ keyed = [req |-> Miss, keys |-> <<>>]
    /\ digests \in {<<[arg |-> a, digest |-> Miss], [arg |-> b, digest |-> Miss]>> :
                        a \in PyConfigs, b \in PyConfigs}

NextDigest == \E i \in DOMAIN digests : Digest(i)

SpecDigest == InitDigest /\ [][NextDigest]_vars

(* ============== InferenceInterface.generate, the facade ================ *)

\* the copies alias the objects they were made from
RepeatRefsShared(working, base, r) ==
    [x \in 1..(Len(working) * r) |-> working[((x - 1) \div r) + 1]]

\* base.py:67-70 with type_utils.py:146-151: with_repeat_idx builds a new
\* InferenceInput from model_dump(), so every repeat input is a new object;
\* objects are named by their position in the heap, base the last one in use
RepeatRefs(working, base, r) == [x \in 1..(Len(working) * r) |-> base + x]

\* every output in one group
GroupedInOne(outputs, r) == <<outputs>>

\* base.py:76-78: outputs[i : i + repeat_cnt] for i in range(0, len, repeat_cnt)
Grouped(outputs, r) ==
    [g \in 1..((Len(outputs) + r - 1) \div r) |->
        SubSeq(outputs, (g - 1) * r + 1, Min(g * r, Len(outputs)))]

(* ---- generate(inputs, repeat_cnt, prompt_template), base.py:22-79, over ---- *)
(* ---- BaseApiLLMInference._generate, api_llm/base.py:51-61 and 87-117;   ---- *)
(* ---- template: a prompt builder is named, which here rewrites the       ---- *)
(* ---- system prompt and marks each output as parsed; the arguments are    ---- *)
(* ---- those the call was entered with                                    ---- *)
FacadeGenerate ==
    LET given    == facade.given
        r        == facade.repeat_cnt
        template == facade.prompt_template
        n       == Len(given)
        \* base.py:61-66: deep copies, then process_input_list
        heap1   == IF template
                   THEN given \o [i \in 1..n |-> [given[i] EXCEPT !.system_prompt = "tpl"]]
                   ELSE given
        working == IF template THEN [i \in 1..n |-> n + i] ELSE [i \in 1..n |-> i]
        \* base.py:67-70
        refs    == RepeatRefs(working, Len(heap1), r)
        heap2   == heap1 \o [x \in 1..(n * r) |->
                               with_repeat_idx(heap1[working[((x - 1) \div r) + 1]],
                                               (x - 1) % r)]
        batch   == [x \in 1..(n * r) |-> heap2[refs[x]]]
        \* api_llm/base.py:51-61: one request goes to _single_generate as it is,
        \* two or more go through the prefill merge of lines 87-95
        m       == IF n * r >= 2 THEN MergeAll(batch, 1)
                   ELSE [err |-> "none", batch |-> batch]
        heap3   == [h \in DOMAIN heap2 |->
                      IF \E x \in DOMAIN refs : refs[x] = h
                      THEN m.batch[CHOOSE x \in DOMAIN refs : refs[x] = h]
                      ELSE heap2[h]]
        sent    == IF m.err = "none" THEN m.batch ELSE <<>>
        outputs == [x \in DOMAIN sent |-> OkOutput(sent[x], "y1")]
        \* base.py:74-75
        parsed  == IF template
                   THEN [x \in DOMAIN outputs |-> [parsed |-> TRUE] @@ outputs[x]]
                   ELSE outputs
        \* base.py:77: range(0, len(outputs), 0) raises
        raised  == IF m.err # "none" THEN m.err
                   ELSE IF r = 0 THEN "ValueError" ELSE "none"
    IN  /\ ~facade.called
        /\ facade' = [called |-> TRUE, given |-> given, repeat_cnt |-> r,
                      prompt_template |-> template, heap |-> heap3,
                      repeat_inputs |-> refs, dispatched |-> sent,
                      workers |-> IF n * r >= 2 /\ m.err = "none"
                                  THEN PoolSize(n * r, DefaultMaxWorkers) ELSE 0,
                      exc |-> raised,
                      grouped_outputs |-> IF raised = "none" THEN Grouped(parsed, r)
                                          ELSE <<>>]
        /\ UNCHANGED <<batchVars, poolVars, cacheVars, storeVars, scopeVars, keyVars, shutVars>>

\* a call entered with the caller's inputs on the heap: two plain requests
\* with different prompts, a well-formed prefilled request and the two
\* malformed ones
InitFacade ==
    /\ BatchIdle /\ PoolEmpty /\ CacheIdle /\ StoreIdle /\ ScopeIdle /\ KeysIdle
    /\ ShutIdle
    /\ facade \in {[called |-> FALSE, given |-> given, repeat_cnt |-> r,
                     prompt_template |-> template, heap |-> given,
                     repeat_inputs |-> <<>>, dispatched |-> <<>>, workers |-> 0,
                     exc |-> "none", grouped_outputs |-> <<>>] :
                       given \in SeqsUpTo({ReqUser(0), MkInput(<<Turn("user", "q2")>>, FALSE, 0),
                                           ReqPrefilled, ReqBadRole, ReqOneTurn}, MaxBatch),
                       r \in 0..(MaxRepeat + 1), template \in BOOLEAN}

NextFacade == FacadeGenerate

SpecFacade == InitFacade /\ [][NextFacade]_vars

(* ---- Shutdownable.shutdown (SpecShutdown) ---- *)

MaxShutdowns == 2

\* shutdownable.py:27-28 with the flag left set (what the finally clause
\* prevents)
FinallyKeepsFlag(flags, o) == flags

\* shutdownable.py:27-28: the finally clause clears the flag of the object
\* whose shutdown is returning
Finally(flags, o) == [flags EXCEPT ![o] = FALSE]

\* shutdownable.py:7-13: a caller outside the graph calls o.shutdown(): no
\* call is in progress, so the flag is clear; it is set and the loop over the
\* attributes starts
ShutdownCall(o) ==
    /\ stack = <<>>
    /\ cascade.nshut < MaxShutdowns
    /\ is_shutting_down' = [is_shutting_down EXCEPT ![o] = TRUE]
    /\ stack' = <<[self |-> o, todo |-> attrs[o]]>>
    /\ cascade' = [nshut |-> cascade.nshut + 1, root |-> o, ran |-> {o},
                   prior_root |-> cascade.root, prior_ran |-> cascade.ran]
    /\ UNCHANGED <<attrs, batchVars, poolVars, cacheVars, storeVars, scopeVars,
                   keyVars, facade>>

\* shutdownable.py:14-26: one pass of the loop of the innermost call: the next
\* attribute is read, and if it holds a Shutdownable other than the object
\* itself its shutdown is called. dir() yields the attributes in the order of
\* their names, which is any order of the objects they hold.
Visit ==
    /\ stack # <<>>
    /\ LET top == stack[Len(stack)] IN
        /\ top.todo # {}
        /\ \E a \in top.todo :
              LET rest == [stack EXCEPT ![Len(stack)].todo = @ \ {a}] IN
              IF a = top.self \/ is_shutting_down[a]
              THEN /\ stack' = rest
                   /\ UNCHANGED <<is_shutting_down, cascade>>
              ELSE /\ is_shutting_down' = [is_shutting_down EXCEPT ![a] = TRUE]
                   /\ stack' = Append(rest, [self |-> a, todo |-> attrs[a]])
                   /\ cascade' = [cascade EXCEPT !.ran = @ \cup {a}]
    /\ UNCHANGED <<attrs, batchVars, poolVars, cacheVars, storeVars, scopeVars,
                   keyVars, facade>>

\* shutdownable.py:27-28: the loop of the innermost call is over: its flag is
\* cleared and the call returns
Return ==
    /\ stack # <<>>
    /\ LET top == stack[Len(stack)] IN
        /\ top.todo = {}
        /\ is_shutting_down' = Finally(is_shutting_down, top.self)
        /\ stack' = SubSeq(stack, 1, Len(stack) - 1)
    /\ UNCHANGED <<attrs, cascade, batchVars, poolVars, cacheVars, storeVars,
                   scopeVars, keyVars, facade>>

\* every ownership graph over the objects, cycles and attributes that hold
\* the object itself included; every object constructed
\* (shutdownable.py:2-3)
InitShutdown ==
    /\ BatchIdle /\ PoolEmpty /\ CacheIdle /\ StoreIdle /\ ScopeIdle /\ KeysIdle
    /\ FacadeIdle
    /\ attrs \in [Objs -> SUBSET Objs]
    /\ is_shutting_down = [o \in Objs |-> FALSE]
    /\ stack = <<>> /\ cascade = NoCascade

NextShutdown == (\E o \in Objs : ShutdownCall(o)) \/ Visit \/ Return

SpecShutdown == InitShutdown /\ [][NextShutdown]_vars

\* a call in progress keeps executing: the loop and the return are steps of
\* the one thread that made the call
SpecShutdownFair == SpecShutdown /\ WF_vars(Visit \/ Return)

(* ========================= properties ================================== *)

\* the result the retry loop owes request i, given the outcomes of its calls
Owed(i) ==
    LET n == Len(calls[i])
    IN  IF n > 0 /\ calls[i][n] \in Replies
        THEN OkOutput(inputs[i], calls[i][n])
        ELSE ErrorOutput(inputs[i])

\* C1: a batch of two or more requests dispatched in parallel returns a list of
\* the input's length whose i-th element is the result the unit of work of
\* request i produced, whatever the completion order.
C1_OrderPreserved ==
    (pc = "returned" /\ Len(inputs) >= 2) =>
        /\ Len(ret) = Len(inputs)
        /\ \A i \in Idx : ret[i] = future[i] /\ ret[i].input = inputs[i]

\* a batch of two different requests returned although the second completed first
C1_Witness ==
    /\ pc = "returned"
    /\ Len(inputs) = 2
    /\ inputs[1] # inputs[2]
    /\ order = <<2, 1>>

\* C2: whatever the backend does during a generate call (raising on every
\* attempt, or returning a reply from which no result can be built), batch
\* generation raises nothing to its caller and returns one result per input,
\* the result at position i depending on the calls made for request i alone.
C2_NeverRaisesOnBackendFailure ==
    /\ Len(inputs) >= 2 => exc # "Exception"
    /\ pc = "returned" =>
          /\ Len(ret) = Len(inputs)
          /\ \A i \in Idx : ret[i] = Owed(i)

\* C3: a request whose backend fails on every attempt costs exactly max_retry
\* calls (3 when the configuration names none) and yields an empty response
\* with the error marker; a request whose k-th attempt is the first to succeed
\* costs exactly k calls and yields that response without the error marker.
C3_RetryCount ==
    \A i \in Idx :
        wstate[i] = "done" =>
            LET n     == Len(calls[i])
                limit == IF "max_retry" \in DOMAIN given_cfgs
                         THEN given_cfgs["max_retry"] ELSE 3
            IN  /\ \A k \in 1..(n - 1) : calls[i][k] = "raise"
                /\ future[i].error =>
                      /\ n = limit
                      /\ \A k \in 1..n : calls[i][k] = "raise"
                      /\ future[i].response = ""
                /\ ~future[i].error =>
                      /\ n \in 1..limit
                      /\ calls[i][n] \in Replies
                      /\ future[i].response = calls[i][n]

\* under the default configuration one request gave up after three failed calls
\* while another succeeded at its second attempt
C3_Witness ==
    /\ "max_retry" \notin DOMAIN given_cfgs
    /\ \E i, j \in Idx :
          /\ wstate[i] = "done" /\ future[i].error /\ Len(calls[i]) = 3
          /\ wstate[j] = "done" /\ ~future[j].error /\ Len(calls[j]) = 2

(* ---- the cached engine (SpecCache) ---- *)

\* the latest two cached calls were for the same single request, the store
\* answered both times and the first call returned a result without error marker
SameRequestTwice ==
    /\ prev.made /\ cur.made
    /\ ~force_update
    /\ Len(prev.reqs) = 1 /\ cur.reqs = prev.reqs
    /\ prev.up /\ cur.up
    /\ prev.exc = "none" /\ ~prev.outs[1].error

\* C4: with force-update off, the second of two cached calls for the same
\* logical request returns the result the first one stored, and the backend
\* generates for that request once across both calls, for remote-API adapters
\* and for resident-model adapters.
C4_SecondCallServedFromCache ==
    SameRequestTwice =>
        /\ cur.exc = "none"
        /\ cur.outs = prev.outs
        /\ cur.gens = 0

PayloadHasError(v) == IF IsDict(v) THEN v.data.error ELSE v.model.error

\* C5: save is never invoked with a result that carries the error marker, and
\* no store holds such a result.
C5_NoErrorResultSaved ==
    /\ \A v \in saved : ~PayloadHasError(v)
    /\ \A k \in DOMAIN mem : ~PayloadHasError(mem[k])
    /\ \A k \in DOMAIN disk : ~PayloadHasError(disk[k])
    /\ \A k \in DOMAIN rstore : ~PayloadHasError(rstore[k])

(* ---- the instance pool, calls made one at a time (SpecPool) ---- *)

HeavyLoaded == {i \in DOMAIN inst : IsHeavy(inst[i].kind) /\ inst[i].loaded}

\* C6: whatever resolve calls are made and whatever generate calls are made on
\* the adapters they returned, at most one hf or vllm adapter holds a loaded
\* resident model.
C6_AtMostOneLoaded == Cardinality(HeavyLoaded) <= 1

\* C7 as stated: a resolve for a resource-heavy backend invokes shutdown exactly
\* once on each pooled resource-heavy adapter of another configuration, and a
\* resolve for a configuration whose adapter was shut down that way constructs
\* and returns a fresh adapter, not the original one.
C7_EvictedIsRebuilt ==
    [][\A m \in ModelCfgs, ic \in PoolInferenceCfgs :
         Resolve(m, ic) =>
            LET h == dict_to_hash(m, ic)
                b == Get(m, "inference_backend")
            IN  /\ IsHeavy(b) =>
                      \A k \in DOMAIN pool \ {h} :
                          IsHeavy(inst[pool[k]].kind) =>
                              inst'[pool[k]].shutdowns = inst[pool[k]].shutdowns + 1
                /\ (IsHeavy(b) /\ h \in DOMAIN pool /\ inst[pool[h]].shutdowns > 0) =>
                      /\ last'.fresh
                      /\ last'.ret \notin DOMAIN inst
                      /\ Len(inst') = Len(inst) + 1]_vars

\* C7 amended: a resolve for a resource-heavy backend invokes shutdown exactly
\* once on each pooled resource-heavy adapter of another configuration; the
\* adapter shut down stays pooled under its fingerprint, and a later resolve for
\* its configuration returns that original adapter and constructs none.
C7_EvictedIsReused ==
    [][\A m \in ModelCfgs, ic \in PoolInferenceCfgs :
         Resolve(m, ic) =>
            LET h == dict_to_hash(m, ic)
                b == Get(m, "inference_backend")
            IN  /\ IsHeavy(b) =>
                      \A k \in DOMAIN pool \ {h} :
                          IsHeavy(inst[pool[k]].kind) =>
                              /\ inst'[pool[k]].shutdowns = inst[pool[k]].shutdowns + 1
                              /\ k \in DOMAIN pool' /\ pool'[k] = pool[k]
                /\ (IsHeavy(b) /\ h \in DOMAIN pool /\ inst[pool[h]].shutdowns > 0) =>
                      /\ ~last'.fresh
                      /\ last'.ret = pool[h]
                      /\ Len(inst') = Len(inst)]_vars

\* a resolve for a resource-heavy configuration found its adapter pooled after
\* an earlier resolve had shut it down, and shut down another heavy adapter
C7_Witness ==
    /\ last.prior # 0
    /\ IsHeavy(last.backend)
    /\ last.ret = last.prior
    /\ inst[last.prior].shutdowns > 0
    /\ \E i \in last.shut : IsHeavy(inst[i].kind)

\* C8: a resolve whose fingerprint is already pooled returns the adapter pooled
\* under it, constructs no adapter and leaves the pool's entries as they were.
C8_HitReturnsPooled ==
    [][\A m \in ModelCfgs, ic \in PoolInferenceCfgs :
         (Resolve(m, ic) /\ dict_to_hash(m, ic) \in DOMAIN pool) =>
            /\ last'.ret = pool[dict_to_hash(m, ic)]
            /\ last'.exc = "none"
            /\ Len(inst') = Len(inst)
            /\ pool' = pool]_vars

\* a resolve hit the pool, here for a remote-API configuration
C8_Witness ==
    /\ last.prior # 0
    /\ last.backend = "api"
    /\ last.ret = last.prior
    /\ Cardinality(DOMAIN pool) >= 2

\* C9: no resolve call invokes shutdown on a pooled remote-API adapter.
C9_ApiNeverShutDown ==
    \A i \in DOMAIN inst : inst[i].kind = "api" => inst[i].shutdowns = 0

(* ---- the instance pool, calls made from several threads (SpecConc) ---- *)

Quiet == \A t \in Threads : th[t].pc \in {"done", "raised"}

\* what is left of a run: the pooled fingerprints with the number of
\* shutdown calls their adapters received, and the exception of each call
PoolView(pl, ins) == {[h |-> k, shutdowns |-> ins[pl[k]].shutdowns] : k \in DOMAIN pl}

\* the calls of the threads of `todo`, made one after the other in that order
RECURSIVE SerialRun(_, _, _, _, _)
SerialRun(todo, pl, po, ins, excs) ==
    IF todo = <<>> THEN [view |-> PoolView(pl, ins), excs |-> excs]
    ELSE LET t == Head(todo)
             o == ResolveOutcome(pl, po, ins, th[t].m, th[t].ic)
         IN  SerialRun(Tail(todo), o.pool, o.porder, o.inst, (t :> o.last.exc) @@ excs)

Orders == {s \in [Threads -> Threads] : \A a, b \in Threads : a # b => s[a] # s[b]}

PooledHeavy == {i \in DOMAIN inst : IsHeavy(inst[i].kind) /\ \E k \in DOMAIN pool : pool[k] = i}

\* C10: resolve calls made at the same time for different configurations end
\* as some one-at-a-time order of them ends: never with two resource-heavy
\* adapters pooled and neither shut down, and never with a pool that no serial
\* order of the calls produces.
C10_ResolveIsSerializable ==
    (Quiet /\ \A a, b \in Threads : a # b => th[a].h # th[b].h) =>
        /\ \A i, j \in PooledHeavy :
              i # j => inst[i].shutdowns > 0 \/ inst[j].shutdowns > 0
        /\ \E s \in Orders :
              SerialRun(s, <<>>, <<>>, <<>>, <<>>) =
                 [view |-> PoolView(pool, inst),
                  excs |-> [t \in Threads |-> th[t].exc]]

(* ---- one JSONFileCacheManager shared by workers (SpecStoreConc) ---- *)

\* the keys whose save_cache call has stored the value but not yet marked it
Unmarked == {saving[w].key : w \in {x \in DOMAIN saving : saving[x].pc = "mark"}}

\* C11: under concurrent save calls on the local-batched store, every saved
\* entry is at all times either marked dirty or present in durable storage with
\* its latest value; no flush of another worker clears an entry's dirty mark
\* without that entry having been written.
C11_SavedIsDirtyOrDurable ==
    \A k \in DOMAIN mem \ Unmarked :
        \/ k \in dirty
        \/ SafeKey(k) \in DOMAIN disk /\ disk[SafeKey(k)] = mem[k]

(* ---- one adapter under a scoped override (SpecScope) ---- *)

\* C12: inside a single override scope every overridden inference-configuration
\* value reads as the override; after the scope exits, normally or because the
\* body raised, every inference-configuration value and the configuration
\* fingerprint read as they did before the scope was entered.
C12_ScopeOverridesAndRestores ==
    /\ scope.pc = "in" =>
          \A k \in Keys(scope.new) : Get(inference_cfgs, k) = Get(scope.new, k)
    /\ scope.pc \in {"exited", "raised"} =>
          /\ Keys(inference_cfgs) = Keys(scope.pre_cfgs)
          /\ \A k \in Keys(scope.pre_cfgs) :
                Get(inference_cfgs, k) = Get(scope.pre_cfgs, k)
          /\ cfgs_hash = scope.pre_hash

\* a scope that replaced one value and added a key was left by an exception
C12_Witness ==
    /\ scope.pc = "raised"
    /\ \E k \in Keys(scope.new) \cap Keys(scope.pre_cfgs) :
          Get(scope.new, k) # Get(scope.pre_cfgs, k)
    /\ \E k \in Keys(scope.new) : k \notin Keys(scope.pre_cfgs)

(* ---- a store called directly, one call at a time (SpecStore) ---- *)

C14_ForceUpdateAlwaysMisses ==
    (force_update /\ op.name = "load") => (op.val = Miss /\ op.exc = "none")

\* a forced load right after a save of the same key that the server stored
C14_Witness ==
    /\ force_update
    /\ op.name = "load" /\ op.before = "save" /\ op.before_key = op.key
    /\ store_kind = "redis" /\ op.key \in DOMAIN rstore

\* C16: in the remote-retried store each load and each save makes at most
\* max_retries attempts (an attempt makes at most one round trip) and stops at
\* the first attempt that succeeds, an attempt succeeding when it raises
\* nothing; when every attempt fails, save returns without raising and stores
\* nothing, and load returns a miss without raising.
C16_BoundedRetries ==
    (store_kind = "redis" /\ op.name \in {"load", "save"}
              /\ ~(op.name = "load" /\ force_update)) =>
            LET usable == /\ IsStr(op.key)
                          /\ op.name = "save" => IsDict(op.value)
                          /\ op.name = "load" =>
                                ~(op.key \in DOMAIN rstore /\ rstore[op.key] = Corrupt)
                wins   == {i \in 1..max_retries : usable /\ op.outs[i] = "ok"}
            IN  /\ op.exc = "none"
                /\ op.trips <= op.attempts /\ op.attempts <= max_retries
                /\ wins # {} =>
                      /\ op.ok
                      /\ op.attempts \in wins
                      /\ \A i \in wins : op.attempts <= i
                /\ wins = {} =>
                      /\ ~op.ok
                      /\ op.attempts = max_retries
                      /\ op.name = "load" => op.val = Miss
                /\ op.name = "save" =>
                      rstore = IF op.ok THEN (op.key :> op.value) @@ op.pre.rstore
                               ELSE op.pre.rstore

\* under the default max_retries a save went through at its second attempt,
\* after which a load lost all three
C16_Witness ==
    /\ store_kind = "redis" /\ max_retries = 3 /\ ~force_update
    /\ op.name = "load" /\ ~op.ok /\ op.attempts = 3 /\ op.trips = 3
    /\ op.before = "save" /\ op.before_key = op.key
    /\ op.key \in DOMAIN rstore /\ rstore[op.key] # Corrupt

(* ---- the cached engine over a store whose storage fails (SpecCache) ---- *)

\* C15: a failure of the storage behind the store during a cached generate call
\* never makes the call raise: the load counts as a miss, the save is dropped
\* and a result comes back for every request, for every store variant.
C15_StorageFailureNeverRaises ==
    (cur.made /\ ~cur.up) =>
        /\ cur.exc # "OSError"
        /\ cur.exc = "none" => Len(cur.outs) = Len(cur.reqs)

(* ---- the instance pool again (SpecPool) ---- *)

\* C17: resolve with a backend tag outside {api, hf, vllm} raises a
\* configuration error, creates no adapter, inserts nothing into the pool and
\* invokes shutdown on no pooled adapter.
C17_UnknownBackendFailsFast ==
    [][\A m \in ModelCfgs, ic \in PoolInferenceCfgs :
          (Resolve(m, ic) /\ Get(m, "inference_backend") \notin {"api", "hf", "vllm"}) =>
              /\ last'.exc = "ValueError"
              /\ last'.ret = 0 /\ ~last'.fresh /\ last'.shut = {}
              /\ pool' = pool /\ porder' = porder
              /\ inst' = inst]_vars

\* an unknown backend was refused while a loaded resident adapter sat in the pool
C17_Witness ==
    /\ last.exc = "ValueError"
    /\ last.backend \notin {"api", "hf", "vllm", "none"}
    /\ \E k \in DOMAIN pool : IsHeavy(inst[pool[k]].kind) /\ inst[pool[k]].loaded

\* an adapter's state but for the count of shutdown calls made on it
Core(a) == [kind |-> a.kind, loaded |-> a.loaded, releases |-> a.releases]

\* C18: for every adapter kind shutdown is idempotent: on an adapter already
\* shut down, or that never loaded a model, it changes no state and raises
\* nothing, so two consecutive shutdown calls leave the state one call leaves.
C18_ShutdownIdempotent ==
    /\ [](\A i \in DOMAIN inst :
            /\ Core(Shutdown(Shutdown(inst[i]))) = Core(Shutdown(inst[i]))
            /\ ~inst[i].loaded => Core(Shutdown(inst[i])) = Core(inst[i]))
    /\ [][\A i \in DOMAIN inst :
            (inst'[i].shutdowns > inst[i].shutdowns /\ ~inst[i].loaded) =>
                Core(inst'[i]) = Core(inst[i])]_vars

\* a resident adapter that had loaded its model was shut down twice in a row,
\* and an API adapter was shut down twice
C18_Witness ==
    /\ \E i \in DOMAIN inst :
          /\ IsHeavy(inst[i].kind) /\ inst[i].releases = 1 /\ inst[i].shutdowns >= 2
          /\ ~inst[i].loaded
    /\ \E i \in DOMAIN inst : inst[i].kind = "api" /\ inst[i].shutdowns >= 2

(* ---- the cached engine again (SpecCache) ---- *)

\* the key under which the cached engine looks a request up
LookupKey(req) ==
    IF adapter_kind = "api" THEN ObjectKey(req)
    ELSE GenerateKey(req, BoundHash(adapter_kind))

\* the store, holding the keys of held when the call began, answers the lookup
\* of req with an entry; up: its storage answers
LookupHits(req, held, up) ==
    /\ ~force_update
    /\ LookupKey(req) \in held
    /\ store_kind = "redis" => up

\* C19: in a cached batch a request whose lookup hits causes no adapter call
\* and no retry for that request; the adapter is invoked only for the requests
\* whose lookup missed.
C19_HitSkipsAdapter ==
    (cur.made /\ cur.exc # "TypeError") =>
        /\ cur.called = {i \in 1..Len(cur.reqs) :
                            ~LookupHits(cur.reqs[i], cur.held, cur.up)}
        /\ cur.gens = Cardinality(cur.called)

\* a batch of two whose first request was served by the store and whose second
\* went to the adapter
C19_Witness ==
    /\ cur.made /\ cur.exc = "none"
    /\ adapter_kind \in {"hf", "vllm"}
    /\ Len(cur.reqs) = 2
    /\ cur.called = {2} /\ cur.gens = 1
    /\ cur.outs[1] \in {prev.outs[i] : i \in DOMAIN prev.outs}

\* the entry the store holds under the key a request is looked up with
Held(req) ==
    IF store_kind = "json_file" THEN mem[LookupKey(req)] ELSE rstore[LookupKey(req)]

Semantics(a) ==
    [m  |-> SortedDump(Without(Without(a.given_model, "api_key_name"), "api_key")),
     ic |-> SortedDump(Without(Without(Without(a.given_inference, "max_retry"),
                                       "max_workers"), "sleep_seconds"))]

\* C21: two remote-API adapters whose configurations differ only in api_key,
\* api_key_name, max_retry, max_workers, sleep_seconds have the same essential
\* fingerprint and use the same cache key for every request; two whose
\* configurations differ in the sampling temperature have different essential
\* fingerprints and use different cache keys.
C21_EssentialFingerprintKeysTheCache ==
    \A i, j \in DOMAIN keyed.keys :
        /\ Semantics(built[i]) = Semantics(built[j]) =>
              /\ built[i].essential = built[j].essential
              /\ keyed.keys[i] = keyed.keys[j]
        /\ Get(built[i].given_inference, "temperature")
              # Get(built[j].given_inference, "temperature") =>
              /\ built[i].essential # built[j].essential
              /\ keyed.keys[i] # keyed.keys[j]

(* ---- the retry loop's sleeps (SpecBatch) ---- *)

\* C22: in a failing retry sequence a sleep follows a failed attempt only when
\* another attempt remains: no sleep follows attempt number max_retry, one
\* follows every earlier failed attempt, so max_retry - 1 sleeps have been made
\* when max_retry >= 1 attempts are exhausted; every sleep has the configured
\* length.
C22_SleepsOnlyBetweenAttempts ==
    \A i \in Idx :
        /\ \A k \in DOMAIN sleeps[i] :
              /\ sleeps[i][k].secs = CfgPop(given_cfgs, "sleep_seconds", DefaultSleepSeconds)
              /\ sleeps[i][k].after < max_retry
        /\ [k \in DOMAIN sleeps[i] |-> sleeps[i][k].after]
              = SelectSeq([k \in DOMAIN calls[i] |-> k],
                          LAMBDA k : calls[i][k] = "raise" /\ k < max_retry)
        /\ (max_retry >= 1 /\ future[i] = ErrorOutput(inputs[i])) =>
              Len(sleeps[i]) = max_retry - 1

\* under the default max_retry and a configured length of 5, the three attempts
\* of a request failed and the error result was produced after two sleeps of 5
C22_Witness ==
    /\ max_retry = 3 /\ sleep_seconds = 5
    /\ \E i \in Idx :
          /\ calls[i] = <<"raise", "raise", "raise">>
          /\ future[i] = ErrorOutput(inputs[i])
          /\ sleeps[i] = <<[after |-> 1, secs |-> 5], [after |-> 2, secs |-> 5]>>

\* C23: at every moment of a parallel batch the number of backend calls in
\* flight is at most min(max_workers, number of requests in the batch).
C23_InFlightBounded ==
    pc \in {"collecting", "raising"} =>
        /\ Cardinality(Running) <= max_workers
        /\ Cardinality(Running) <= Len(inputs)

\* one worker for a batch of two: the first request is in a backend retry
\* sequence while the second waits for the worker
C23_Witness ==
    /\ pc = "collecting" /\ max_workers = 1 /\ Len(inputs) >= 2
    /\ wstate[1] = "running" /\ Len(calls[1]) > 0
    /\ wstate[2] = "queued"

(* ---- InferenceInterface.generate (SpecFacade) ---- *)

\* C24: generate with n inputs and repeat count r >= 1 returns exactly n
\* groups of exactly r results each, the j-th result of group i being the
\* result for input i tagged with repeat index j (counted from 0).
C24_GroupsFollowInputs ==
    (facade.called /\ facade.repeat_cnt >= 1 /\ facade.exc = "none") =>
        LET n == Len(facade.given)
            r == facade.repeat_cnt
        IN  /\ Len(facade.grouped_outputs) = n
            /\ \A i \in 1..n :
                  /\ Len(facade.grouped_outputs[i]) = r
                  /\ \A j \in 1..r :
                        LET o == facade.grouped_outputs[i][j].input
                        IN  /\ o.repeat_idx = j - 1
                            /\ o.prefilled = facade.given[i].prefilled
                            /\ o.system_prompt =
                                  IF facade.prompt_template THEN "tpl"
                                  ELSE facade.given[i].system_prompt
                            /\ o.conversation =
                                  IF n * r >= 2
                                  THEN PrefillMerge(facade.given[i]).req.conversation
                                  ELSE facade.given[i].conversation

\* two different inputs, each repeated twice
C24_Witness ==
    /\ facade.called /\ facade.exc = "none" /\ facade.repeat_cnt = 2
    /\ Len(facade.given) = 2
    /\ facade.given[1].conversation # facade.given[2].conversation
    /\ Len(facade.grouped_outputs) = 2

\* C25: after generate returns or raises, every input object the caller passed
\* in is as it was, with and without a prompt template, also for prefilled
\* inputs that went through the prefill merge.
C25_CallerInputsUntouched ==
    facade.called =>
        \A i \in DOMAIN facade.given : facade.heap[i] = facade.given[i]

\* without a template a prefilled input was merged on its way to the backend
C25_Witness ==
    /\ facade.called /\ facade.exc = "none" /\ ~facade.prompt_template
    /\ \E x \in DOMAIN facade.dispatched :
          LET i == ((x - 1) \div facade.repeat_cnt) + 1
          IN  /\ facade.given[i].prefilled
              /\ facade.dispatched[x].conversation # facade.given[i].conversation

\* prefilled, with a last turn that is not an assistant turn or fewer than two turns
Malformed(req) ==
    /\ req.prefilled
    /\ \/ Len(req.conversation) < 2
       \/ req.conversation[Len(req.conversation)].role # "assistant"

\* C26: a call whose inputs hold a malformed prefilled request is rejected with
\* the contract error (ValueError) before any request is handed to the backend,
\* whether the request is alone or in a larger batch.
C26_MalformedPrefillRejected ==
    (facade.called /\ facade.repeat_cnt >= 1
        /\ \E i \in DOMAIN facade.given : Malformed(facade.given[i])) =>
        /\ facade.exc = "ValueError"
        /\ facade.dispatched = <<>>

(* ---- a local-batched store reopened on its directory (SpecStore) ---- *)

\* C27: with force-update off, every entry the local-batched store held at a
\* clean teardown is returned unchanged by load of the same key from a new
\* store opened on the same directory.
C27_ReopenedStoreReturnsSaved ==
    (op.name = "open" /\ ~write_failed /\ ~force_update) =>
        \A k \in DOMAIN op.closed :
            load_cache(StoreState, k, Steady(TRUE)).val = op.closed[k]

(* ---- two configurations fingerprinted (SpecDigest) ---- *)

\* Python's ==: dicts with the same keys and equal values whatever the order,
\* sequences of the same type with equal elements in the same order
RECURSIVE PyEq(_, _)
PyEq(a, b) ==
    IF a.py # b.py THEN FALSE
    ELSE IF a.py = "dict"
    THEN /\ {a.pairs[i][1] : i \in DOMAIN a.pairs} = {b.pairs[j][1] : j \in DOMAIN b.pairs}
         /\ \A i \in DOMAIN a.pairs, j \in DOMAIN b.pairs :
               a.pairs[i][1] = b.pairs[j][1] => PyEq(a.pairs[i][2], b.pairs[j][2])
    ELSE IF a.py \in {"list", "tuple"}
    THEN /\ Len(a.items) = Len(b.items)
         /\ \A i \in DOMAIN a.items : PyEq(a.items[i], b.items[i])
    ELSE a = b

\* C28: two configurations with the same keys and values, in any key order at
\* every nesting level, have the same fingerprint, and two configurations that
\* differ in at least one value have different fingerprints.
C28_FingerprintTellsConfigsApart ==
    (digests # <<>> /\ \A i \in DOMAIN digests : digests[i].digest # Miss) =>
        /\ PyEq(digests[1].arg, digests[2].arg) => digests[1].digest = digests[2].digest
        /\ ~PyEq(digests[1].arg, digests[2].arg) => digests[1].digest # digests[2].digest

(* ---- batches of no request and of one request (SpecBatch) ---- *)

\* C29: generate on an empty list returns an empty list with no backend call
\* and no worker; generate on exactly one request runs the backend path in the
\* caller's thread: no unit of work is queued, no worker is started and no
\* future is collected, and the list returned holds the result of that call
\* (which reached the backend at least once unless max_retry is 0).
C29_SmallBatchesBypassThePool ==
    (pc # "idle" /\ Len(inputs) <= 1) =>
        /\ pc \notin {"collecting", "raising"}
        /\ order = <<>> /\ results = <<>>
        /\ \A i \in DOMAIN wstate : wstate[i] \notin {"queued", "unsubmitted"}
        /\ Len(inputs) = 0 => pc = "returned" /\ ret = <<>> /\ calls = <<>>
        /\ (Len(inputs) = 1 /\ pc = "returned") =>
              /\ max_retry >= 1 => Len(calls[1]) >= 1
              /\ ret = <<future[1]>>

\* one request answered by a direct call that succeeded on its second attempt
C29_Witness ==
    /\ pc = "returned" /\ Len(inputs) = 1
    /\ Len(calls[1]) = 2 /\ ret = <<future[1]>>
    /\ order = <<>>

(* ---- a resolve call that finds its fingerprint pooled (SpecPool) ---- *)

\* C30: a resolve call whose fingerprint is already pooled invokes shutdown on
\* no adapter, whatever the requested backend.
C30_PoolHitEvictsNothing ==
    (last.backend # "none" /\ last.prior # 0) => last.shut = {}

(* ---- the keys the cached engine hands to its store (SpecCache) ---- *)

\* C31: for every adapter kind, the key handed to the store's load for request
\* i of a cached call is the fingerprint of the request's system prompt,
\* conversation, prefilled flag and repeat index with the essential fingerprint
\* of the bound adapter, and the key handed to the store's save for a request
\* that went to the adapter is that same key.
C31_StoreKeyIsRequestFingerprint ==
    (cur.made /\ cur.exc = "none") =>
        \A i \in 1..Len(cur.reqs) :
            /\ cur.lkeys[i] = GenerateKey(cur.reqs[i], BoundHash(adapter_kind))
            /\ i \in cur.called => cur.skeys[i] = cur.lkeys[i]

(* ---- a prefilled request alone and in a batch (SpecFacade) ---- *)

\* C32: a well-formed prefilled request is handed to the backend with its
\* trailing assistant turn removed and that turn's content appended to the
\* content of the turn before it, whether the call dispatches it alone or with
\* other requests.
C32_PrefillMergedAloneOrInBatch ==
    (facade.called /\ facade.exc = "none" /\ facade.repeat_cnt >= 1) =>
        \A x \in DOMAIN facade.dispatched :
            LET g == facade.given[((x - 1) \div facade.repeat_cnt) + 1]
            IN  (g.prefilled /\ ~Malformed(g)) =>
                   facade.dispatched[x].conversation = PrefillMerge(g).req.conversation

(* ---- one override scope inside another (SpecNested) ---- *)

\* C33: with a second scope entered inside the first on the same adapter, once
\* the inner scope has exited the configuration and its fingerprint read as
\* under the outer override alone, and once the outer scope has exited too they
\* read as before the outer scope was entered.
C33_NestedScopesUnwind ==
    /\ (scope.pc = "in" /\ outer.pc \in {"exited", "raised"}) =>
          /\ SortedDump(inference_cfgs) = SortedDump(outer.pre_cfgs)
          /\ cfgs_hash = outer.pre_hash
    /\ (scope.pc \in {"exited", "raised"} /\ outer.pc \in {"exited", "raised"}) =>
          /\ SortedDump(inference_cfgs) = SortedDump(scope.pre_cfgs)
          /\ cfgs_hash = scope.pre_hash

(* ---- the cache key of a request inside an override scope (SpecScope) ---- *)

\* C34: while a scoped override that changes the sampling temperature is
\* active, the cache key computed for a request differs from the key computed
\* for the same request before the scope was entered.
C34_OverrideChangesCacheKey ==
    (scope.pc = "in"
        /\ Get(inference_cfgs, "temperature") # Get(scope.pre_cfgs, "temperature")) =>
        \A req \in CacheRequests : EngineKey(req) # GenerateKey(req, scope.pre_essential)

(* ---- a cached batch of hits and misses (SpecCache) ---- *)

\* C35: behind a resident-model adapter a cached batch that returns holds one
\* result per request, in the order of the requests: at a position whose
\* lookup hit, the result the store held under the request's key, and at any
\* other position the output generated in this call for the request of that
\* position; also when every lookup hits and when none does.
C35_MixedBatchKeepsPositions ==
    (cur.made /\ cur.exc = "none" /\ adapter_kind \in {"hf", "vllm"}) =>
        /\ Len(cur.outs) = Len(cur.reqs)
        /\ \A i \in 1..Len(cur.reqs) :
              IF LookupHits(cur.reqs[i], cur.held, cur.up)
              THEN cur.outs[i] = Held(cur.reqs[i]).data
              ELSE cur.outs[i] = ResidentOutput(adapter_kind, cur.reqs[i],
                                                IF ncalls % 2 = 1 THEN "y1" ELSE "y2")

\* a batch of two different requests: the first went to the model, the second
\* was served with what an earlier call had stored for it
C35_Witness ==
    /\ cur.made /\ cur.exc = "none"
    /\ adapter_kind \in {"hf", "vllm"}
    /\ Len(cur.reqs) = 2 /\ cur.reqs[1] # cur.reqs[2]
    /\ cur.called = {1}
    /\ cur.outs[2] \in {prev.outs[i] : i \in DOMAIN prev.outs}
    /\ cur.outs[1].response # cur.outs[2].response

(* ---- resolve called twice with the same dicts (SpecReuse) ---- *)

\* C36: a resolve call repeated with the very dicts of a call that returned an
\* adapter finds the dicts as they were given, so it hits the pool and returns
\* the adapter the first call returned, raising nothing.
C36_SameDictsHitThePool ==
    last.again =>
        /\ last.exc = "none"
        /\ last.ret = last.first
        /\ ~last.fresh

(* ---- an instance asked for with a bad cache configuration (SpecInstance) ---- *)

\* C37: when obtaining an instance fails because the cache configuration names
\* no store kind or an unknown one, the pool and every adapter are as they were
\* before the call: none created, inserted or shut down.
C37_BadCacheCfgLeavesPoolAlone ==
    last.cache_exc # "none" =>
        /\ pool = last.before.pool
        /\ inst = last.before.inst

(* ---- a batch rejected by the prefill merge (SpecFacade) ---- *)

\* C38: when the batch path rejects a batch because a prefilled request is
\* malformed, the conversation of every request object of the batch, the
\* rejected one and those before it included, is as it was when the batch was
\* handed over.
C38_RejectedBatchIsUntouched ==
    (facade.called /\ facade.repeat_cnt >= 1
        /\ facade.exc = "ValueError") =>
        \A x \in DOMAIN facade.repeat_inputs :
            facade.heap[facade.repeat_inputs[x]].conversation
               = facade.given[((x - 1) \div facade.repeat_cnt) + 1].conversation

(* ---- cascading shutdown (SpecShutdownFair) ---- *)

\* the objects reached from those in seen along the attributes
RECURSIVE Reachable(_)
Reachable(seen) ==
    LET more == seen \cup UNION {attrs[o] : o \in seen}
    IN  IF more = seen THEN seen ELSE Reachable(more)

\* C39: a shutdown call returns whatever the ownership graph, cycles
\* included; when it has returned no object's in-progress flag is set, and
\* the shutdown body has run on every object reachable from the one called,
\* in a later call as in the first.
C39_CascadeTerminatesAndRearms ==
    /\ [](stack = <<>> /\ cascade.nshut >= 1 =>
            /\ \A o \in Objs : ~is_shutting_down[o]
            /\ cascade.ran = Reachable({cascade.root}))
    /\ (stack # <<>>) ~> (stack = <<>>)

\* the second shutdown of A, which holds B while B holds A, has returned and
\* has cascaded as the first did
C39_Witness ==
    /\ "B" \in attrs["A"] /\ "A" \in attrs["B"]
    /\ cascade.nshut = 2 /\ stack = <<>>
    /\ cascade.root = "A" /\ cascade.prior_root = "A"
    /\ "B" \in cascade.ran /\ cascade.ran = cascade.prior_ran

====
